---- MODULE Spec2Model ----
(***************************************************************************)
(* Character Knowledge Base of BookWeaverBackend:                          *)
(*   pipelines/character_analysis.py  (CharacterAnalysisPipeline)          *)
(*   core/data_models.py              (CharacterPatch, Character,          *)
(*                                     CharacterArchive)                   *)
(*   services/llm_service.py          (LLMService.call_for_pydantic)       *)
(*                                                                         *)
(* and the scenario orchestrator:                                          *)
(*   pipelines/scenario_generation.py (ScenarioGenerationPipeline)         *)
(*   core/data_models.py              (RawScenario, ScenarioEntry,         *)
(*                                     Scenario, AmbientTransitionList,    *)
(*                                     EmotionMap)                         *)
(*                                                                         *)
(* Specifications, all over the same variables:                            *)
(*   SpecPatch     one call of _apply_patch, of _add_empty_mentions or of  *)
(*                 a save/load cycle on a loaded archive;                  *)
(*   Spec          whole passes of CharacterAnalysisPipeline.run;          *)
(*   SpecScenario  runs of ScenarioGenerationPipeline.run for one chapter, *)
(*                 with interruptions;                                     *)
(*   SpecAmbient   one call of _enrich_with_ambient;                       *)
(*   SpecProgress  one run with a progress callback beside one without;    *)
(*   SpecLLM       one call of LLMService.call_for_pydantic (SpecLLMFair:  *)
(*                 with the fairness its timeouts give);                   *)
(*   SpecMerge     one call of utils/audio_merger.merge_chapter_audio;     *)
(*   SpecServer    api/state.py and api_server.py: the server status and   *)
(*                 the background tasks;                                   *)
(*   SpecModelManager  threads calling the getters of                      *)
(*                 services/model_manager.py and LLMService.model;         *)
(*   SpecPlayback  requests to get_chapter_playback_data                   *)
(*                 (api/mobile/mobile_api_router.py) for one chapter.      *)
(***************************************************************************)
EXTENDS Integers, Sequences, FiniteSets, TLC

VARIABLES archive,   \* master_archive.characters: the in-memory list of Character
          disk,      \* character_archive.json: list of JSON objects (<<>> = no file)
          nextId,    \* the next identifier uuid4() hands out (fresh by construction)
          born,      \* history: id -> the (vol, chap) _apply_patch was called with at creation
          last,      \* history: the operation that produced the current state
          pc,        \* position of run(): "idle", "loop"
          idx,       \* index i of the chapter the loop of run() is at
          runs,      \* number of passes started
          blank      \* the chapters (by index) whose text is empty after strip()

\* ScenarioGenerationPipeline.run for one chapter
VARIABLES rawCache,      \* cache_raw_scenario.json
          ambCache,      \* cache_ambient.json
          scenarioFile,  \* scenario.json
          spc,           \* the step run() is about to take, "idle" outside a run
          work,          \* the entry list the run holds in memory
          run,           \* history of the current (or last) run
          sruns,         \* number of runs started
          emotions,      \* available_emotions is not empty
          inputs         \* which input files of the run exist on disk

\* one call of a pure function: its arguments and its result
VARIABLES fnIn, fnOut

\* one call of LLMService.call_for_pydantic
VARIABLES lpc,            \* "idle", "try" (inside the retry loop), "done"
          attempt,        \* the loop variable of "for attempt in range(max_retries)"
          tries,          \* history: number of generate_content calls made
          response_text,  \* the local response_text
          result,         \* what the call gave its caller
          delays,         \* history: the arguments of time.sleep, in order
          outcomes        \* history: what each generate_content call ended in

kbVars == <<archive, disk, nextId, born, last, pc, idx, runs, blank>>
scVars == <<rawCache, ambCache, scenarioFile, spc, work, run, sruns, emotions, inputs>>
fnVars == <<fnIn, fnOut>>
\* the server module's globals and its background tasks
VARIABLES SERVER_STATUS,     \* SERVER_STATUS.status
          app_pipelines,     \* "None" or "Application"
          background_tasks,  \* task_id -> the task's record
          scheduled,         \* the task_ids given to add_task whose wrapper has not started
          outcome,           \* history: task_id -> how target_func ended
          nextTask,          \* the next task_id uuid4() hands out
          reply,             \* history: how the last start_task request ended
          reported           \* history: the task_id of the last progress report

\* a ModelManager, one LLMService it hands out, and the threads that call them
VARIABLES _services,         \* service_key -> the instance stored (NoInstance: the key is absent)
          _locks,            \* service_key -> the thread holding the lock (NoThread: free)
          tpc,               \* thread -> where it is in the getter
          tkey,              \* thread -> the service_key of its call
          got,               \* thread -> the instance its last call returned
          built,             \* history: service_key -> instances constructed so far
          handed             \* history: service_key -> the instances returned to callers

\* the files of one chapter that get_chapter_playback_data reads and writes
VARIABLES scenario_file,     \* scenario.json: whether it exists and the entries Scenario.load gives
          chapter_audio_dir, \* the per-entry audio files
          subtitles_file,    \* subtitles.json as the subtitles_map built from it
          full_audio_path,   \* full_chapter.mp3: whether it exists, the merge that wrote it
          sync_map_path,     \* full_chapter_map.json: whether it exists, is readable, its items
          ppc,               \* where the request is: "idle", or "merged" before the map is written
          merged,            \* what merge_chapter_audio returned to the running request
          builds,            \* history: merges that exported an audio file
          response           \* history: how the last request ended

llmVars == <<lpc, attempt, tries, response_text, result, delays, outcomes>>

taskVars == <<SERVER_STATUS, app_pipelines, background_tasks, scheduled, outcome, nextTask,
              reply, reported>>

mmVars == <<_services, _locks, tpc, tkey, got, built, handed>>
pbVars == <<scenario_file, chapter_audio_dir, subtitles_file, full_audio_path, sync_map_path,
           ppc, merged, builds, response>>
vars == <<kbVars, scVars, fnVars, llmVars, taskVars, mmVars, pbVars>>

\* ------------------------------------------------------------------ bounds
MaxChars == 2     \* characters the registry may hold
MaxPatches == 2   \* patches in one patch list
MaxRuns == 2      \* passes of run() in Spec

\* all_chapters: the (vol, chap) pairs of the book in natural sort order
Chapters == <<<<1, 1>>, <<1, 2>>>>

\* chapter_id = f"vol_{vol_num}_chap_{chap_num}": one key per (vol, chap)
ChapterId(vol, chap) == <<"vol", vol, "chap", chap>>

ChapterIds == {ChapterId(Chapters[i][1], Chapters[i][2]) : i \in 1..Len(Chapters)}

\* ------------------------------------------------------------ data models
\* The declared fields of class Character.
CharacterFields ==
  {"id", "name", "description", "spoiler_free_description", "aliases", "chapter_mentions"}

\* The declared fields of class CharacterPatch.
PatchFields == CharacterFields

\* the placeholder texts of the source, transliterated
Placeholder == "Opisanie ne predostavleno."
EmptyMention == "Personazh upominaetsya v glave, no bez znachimyh dejstvij."

NoId == 0          \* patch.id is None
EmptyDict == [k \in {} |-> ""]

\* A CharacterPatch is a record whose domain is {"id"} plus model_fields_set:
\* a field absent from the domain was left unset (its attribute reads None).
IsSet(patch, f) == f \in DOMAIN patch

\* Python truthiness of an optional field of a patch: unset/None, "", [] and {} are falsy.
Truthy(patch, f) ==
  /\ IsSet(patch, f)
  /\ CASE f \in {"name", "description", "spoiler_free_description"} -> patch[f] # ""
       [] f = "aliases" -> Len(patch[f]) > 0
       [] f = "chapter_mentions" -> DOMAIN patch[f] # {}
       [] OTHER -> patch[f] # NoId

\* CharacterPatch.check_name_for_new_character: id is None and not name => ValueError
CheckNameForNewCharacter(patch) == ~(patch.id = NoId /\ ~Truthy(patch, "name"))

\* Character(**kwargs): pydantic keeps the declared fields and ignores the others.
Character(kwargs) == [f \in CharacterFields |-> kwargs[f]]

\* first_mention=f"Tom {vol}, Glava {chap}" (the Russian words transliterated)
FirstMention(vol, chap) == <<"Tom", vol, "Glava", chap>>

\* ---------------------------------------------------------------- helpers
Range(s) == {s[i] : i \in 1..Len(s)}

Ids(chars) == {chars[i].id : i \in 1..Len(chars)}

Min(S) == CHOOSE x \in S : \A y \in S : x <= y

\* sorted(list(S))
RECURSIVE Sorted(_)
Sorted(S) == IF S = {} THEN <<>> ELSE <<Min(S)>> \o Sorted(S \ {Min(S)})

\* d.update(e)
DictUpdate(d, e) ==
  [k \in DOMAIN d \cup DOMAIN e |-> IF k \in DOMAIN e THEN e[k] ELSE d[k]]

\* position of the character with identifier id in an insertion-ordered map
PosOf(chars, id) == CHOOSE i \in 1..Len(chars) : chars[i].id = id

\* Put with the bug "append to a list instead of assigning into the map"
PutAppend(chars, id, char) == Append(chars, char)

\* char_map[id] = char on an insertion-ordered dict
Put(chars, id, char) ==
  IF id \in Ids(chars)
    THEN [chars EXCEPT ![PosOf(chars, id)] = char]
    ELSE Append(chars, char)

\* char_map = {char.id: char for char in archive.characters}
RECURSIVE CharMap(_)
CharMap(chars) ==
  IF chars = <<>> THEN <<>>
  ELSE LET n == Len(chars)
       IN Put(CharMap(SubSeq(chars, 1, n - 1)), chars[n].id, chars[n])

\* ------------------------------------------------------------ _apply_patch
\* UpdateData with the bug "exclude_unset forgotten": unset fields are dumped too,
\* with their default None (written here as the empty value of the field's type)
UpdateDataAll(patch) ==
  [f \in PatchFields \ {"id"} |->
     IF f \in DOMAIN patch THEN patch[f]
     ELSE CASE f = "aliases" -> <<>>
            [] f = "chapter_mentions" -> EmptyDict
            [] OTHER -> "None"]

\* update_data = patch.model_dump(exclude_unset=True, exclude={'id'})
UpdateData(patch) == [f \in DOMAIN patch \ {"id"} |-> patch[f]]

\* existing_char.model_copy(update=update_data)
ModelCopy(char, update) ==
  [f \in DOMAIN char \cup DOMAIN update |-> IF f \in DOMAIN update THEN update[f] ELSE char[f]]

\* UpdateExisting with the bug "no merge: the patch's values replace the old ones"
UpdateExistingReplace(existing_char, patch) == ModelCopy(existing_char, UpdateData(patch))

\* The update branch of _apply_patch (patch.id names a character) for one patch.
UpdateExisting(existing_char, patch) ==
  LET ud0 == UpdateData(patch)
      mergeAliases == "aliases" \in DOMAIN ud0 /\ Len(ud0.aliases) > 0
      ud1 == IF mergeAliases
               THEN [ud0 EXCEPT !.aliases =
                       Sorted(Range(existing_char.aliases) \cup Range(ud0.aliases))]
               ELSE ud0
      mergeMentions == "chapter_mentions" \in DOMAIN ud1 /\ DOMAIN ud1.chapter_mentions # {}
      existing1 == IF mergeMentions
                     THEN [existing_char EXCEPT !.chapter_mentions =
                             DictUpdate(@, ud1.chapter_mentions)]
                     ELSE existing_char
      ud2 == IF mergeMentions
               THEN [f \in DOMAIN ud1 \ {"chapter_mentions"} |-> ud1[f]]
               ELSE ud1
  IN IF DOMAIN ud2 # {} THEN ModelCopy(existing1, ud2) ELSE existing1

\* The creation branch of _apply_patch (patch.id is None, name given) for one patch.
CreateNew(patch, vol, chap, newId) ==
  Character([id |-> newId,
             name |-> patch.name,
             description |-> IF Truthy(patch, "description")
                               THEN patch.description ELSE Placeholder,
             spoiler_free_description |-> IF Truthy(patch, "spoiler_free_description")
                                            THEN patch.spoiler_free_description
                                            ELSE Placeholder,
             aliases |-> IF Truthy(patch, "aliases") THEN patch.aliases ELSE <<>>,
             chapter_mentions |-> IF Truthy(patch, "chapter_mentions")
                                    THEN patch.chapter_mentions ELSE EmptyDict,
             first_mention |-> FirstMention(vol, chap)])

IsUpdate(char_map, patch) == patch.id # NoId /\ patch.id \in Ids(char_map)
IsCreation(char_map, patch) == ~IsUpdate(char_map, patch) /\ patch.id = NoId /\ Truthy(patch, "name")

\* One iteration of "for patch in patch_list.patches"; fresh is the identifier
\* uuid4() returns if the patch creates a character.
ApplyOne(char_map, patch, vol, chap, fresh) ==
  IF IsUpdate(char_map, patch)
    THEN Put(char_map, patch.id, UpdateExisting(char_map[PosOf(char_map, patch.id)], patch))
  ELSE IF IsCreation(char_map, patch)
    THEN Put(char_map, fresh, CreateNew(patch, vol, chap, fresh))
  ELSE char_map   \* logger.warning: the incorrect patch is skipped

\* The char_map after each of the first k patches: <<m0, m1, ..., mk>>.
RECURSIVE PatchSteps(_, _, _, _, _)
PatchSteps(chars, patches, vol, chap, fresh) ==
  IF patches = <<>> THEN <<CharMap(chars)>>
  ELSE LET n == Len(patches)
           prev == PatchSteps(chars, SubSeq(patches, 1, n - 1), vol, chap, fresh)
           m == prev[Len(prev)]
       IN Append(prev, ApplyOne(m, patches[n], vol, chap, fresh + Len(m) - Len(CharMap(chars))))

\* _apply_patch(archive, patch_list, vol, chap): archive.characters afterwards
ApplyPatch(chars, patches, vol, chap, fresh) ==
  LET steps == PatchSteps(chars, patches, vol, chap, fresh)
  IN steps[Len(steps)]

\* AddEmptyMentions with the bug "the map is assigned instead of the key": the
\* referenced character's earlier entries are lost
AddEmptyMentionsReplace(chars, ids_to_mention, chapter_id) ==
  [i \in 1..Len(chars) |->
     IF chars[i].id \in ids_to_mention
       THEN [chars[i] EXCEPT !.chapter_mentions = (chapter_id :> EmptyMention)]
       ELSE chars[i]]

\* _add_empty_mentions(archive, ids_to_mention, chapter_id)
AddEmptyMentions(chars, ids_to_mention, chapter_id) ==
  [i \in 1..Len(chars) |->
     IF chars[i].id \in ids_to_mention /\ chapter_id \notin DOMAIN chars[i].chapter_mentions
       THEN [chars[i] EXCEPT !.chapter_mentions = DictUpdate(@, (chapter_id :> EmptyMention))]
       ELSE chars[i]]

\* IsChapterProcessed with the bug "return False inside the loop": only the first
\* character is looked at
IsChapterProcessedFirst(chars, chapter_id) ==
  Len(chars) >= 1 /\ chapter_id \in DOMAIN chars[1].chapter_mentions

\* _is_chapter_processed(archive, chapter_id)
IsChapterProcessed(chars, chapter_id) ==
  \E i \in 1..Len(chars) : chapter_id \in DOMAIN chars[i].chapter_mentions

\* ------------------------------------------------- CharacterArchive.save/load
\* save: model_dump(mode='json'), then json.dump of the 'characters' list:
\* one JSON object per character with the declared fields; the UUID becomes a string.
UuidToStr(id) == <<"uuid", id>>
StrToUuid(s) == s[2]

Save(chars) ==
  [i \in 1..Len(chars) |->
     [f \in CharacterFields |-> IF f = "id" THEN UuidToStr(chars[i].id) ELSE chars[i][f]]]

\* The file after an interrupted save: open(path, "w") has emptied it and json.dump
\* has written a proper prefix of the text, which json.loads rejects.
Truncated == <<[truncated |-> TRUE]>>

\* load: cls(characters=json.loads(...)): each object is validated into a Character.
Load(data) ==
  [i \in 1..Len(data) |->
     Character([f \in DOMAIN data[i] |-> IF f = "id" THEN StrToUuid(data[i].id) ELSE data[i][f]])]

\* ------------------------------------------------------- collaborator answers
\* The CharacterPatch objects the collaborator's JSON may describe while the
\* chapter with identifier cur is analysed: creation patches (no id) and, for each
\* identifier, update patches that set nothing, aliases, chapter_mentions or texts.
CreationPatches(cur) ==
  { [id |-> NoId, name |-> "n1"],
    [id |-> NoId, name |-> "n2", description |-> "d1", spoiler_free_description |-> "d1",
     aliases |-> <<2>>, chapter_mentions |-> (cur :> "s1")] }

UpdatePatches(cur) ==
  UNION { { [id |-> i],
            [id |-> i, aliases |-> <<1>>],
            [id |-> i, aliases |-> <<>>],
            [id |-> i, chapter_mentions |-> (cur :> "s2")],
            [id |-> i, chapter_mentions |-> EmptyDict],
            [id |-> i, name |-> "n3", description |-> "d2"],
            [id |-> i, name |-> "n3", spoiler_free_description |-> "d2",
             aliases |-> <<1>>, chapter_mentions |-> (cur :> "s2")] } : i \in 1..MaxChars }

\* a creation patch without a name, as the collaborator's JSON may hold it
NamelessPatches == { [id |-> NoId, description |-> "d1"] }

PatchLists(pool) == UNION { [1..n -> pool] : n \in 0..MaxPatches }

\* ---------------------------------------------------------------- history
NoBorn == [i \in {} |-> <<>>]

\* born after a call of _apply_patch(.., vol, chap) that turned before into after
BornAfter(b, before, after, vol, chap) ==
  [i \in DOMAIN b \cup (Ids(after) \ Ids(before)) |->
     IF i \in DOMAIN b THEN b[i] ELSE FirstMention(vol, chap)]

Op(op, before, steps, patches, c, ids, calls, saved) ==
  [op |-> op, before |-> before, steps |-> steps, patches |-> patches,
   chapter |-> c, ids |-> ids, calls |-> calls, saved |-> saved,
   names |-> FALSE, recon_ok |-> TRUE, patch_ok |-> TRUE]

Vol(c) == Chapters[c][1]
Chap(c) == Chapters[c][2]
Cid(c) == ChapterId(Vol(c), Chap(c))

\* ================================================= scenario_generation.py
\* A file of the chapter's output directory: absent, complete with its parsed
\* JSON content, or cut off by an interrupted write_text()/save().
NoFile == [exists |-> FALSE, torn |-> FALSE, data |-> <<>>]
TornFile == [exists |-> TRUE, torn |-> TRUE, data |-> <<>>]
File(data) == [exists |-> TRUE, torn |-> FALSE, data |-> data]

\* the speaker "Rasskazchik" and the emotion "nejtralno" of the source, transliterated
Narrator == "Rasskazchik"
Neutral == "nejtralno"

\* d[k] = v on a dict
SetKey(d, k, v) == [f \in DOMAIN d \cup {k} |-> IF f = k THEN v ELSE d[f]]

\* raw_scenario.model_dump_json() / [entry.model_dump(mode='json') ...]: one
\* object per RawScenarioEntry, the UUID written as a string
RawToJson(entries) ==
  [i \in 1..Len(entries) |-> [entries[i] EXCEPT !.id = UuidToStr(@)]]

\* RawScenario.model_validate_json(text): the string parsed back into a UUID
JsonToRaw(data) ==
  [i \in 1..Len(data) |-> [data[i] EXCEPT !.id = StrToUuid(@)]]

\* transitions_map = {str(t.entry_id): t.ambientSoundId for t in transitions}:
\* for an identifier listed twice the later transition wins
TransitionsMap(transitions) ==
  [k \in {UuidToStr(transitions[j].entry_id) : j \in 1..Len(transitions)} |->
     LET js == {j \in 1..Len(transitions) : UuidToStr(transitions[j].entry_id) = k}
         jmax == CHOOSE j \in js : \A j2 \in js : j2 <= j
     IN transitions[jmax].ambientSoundId]

\* lines 197-204: the walk over the entries with current_ambient
RECURSIVE AmbientWalk(_, _, _)
AmbientWalk(entries, transitions_map, current_ambient) ==
  IF entries = <<>> THEN <<>>
  ELSE LET entry == Head(entries)
           cur == IF entry.id \in DOMAIN transitions_map
                    THEN transitions_map[entry.id] ELSE current_ambient
       IN <<SetKey(entry, "ambient", cur)>> \o AmbientWalk(Tail(entries), transitions_map, cur)

\* EnrichWithAmbient with the bug "current_ambient not carried along": only the
\* entries listed in the transitions get their ambient
EnrichWithAmbientNoCarry(entries, ambient_data) ==
  IF ~ambient_data.ok \/ ambient_data.transitions = <<>>
    THEN [i \in 1..Len(entries) |-> SetKey(entries[i], "ambient", "none")]
    ELSE LET m == TransitionsMap(ambient_data.transitions)
         IN [i \in 1..Len(entries) |->
               SetKey(entries[i], "ambient",
                      IF entries[i].id \in DOMAIN m THEN m[entries[i].id] ELSE "none")]

\* _enrich_with_ambient(entries) for the answer ambient_data of the collaborator
\* (ok = FALSE: call_for_pydantic returned None)
EnrichWithAmbient(entries, ambient_data) ==
  IF ~ambient_data.ok \/ ambient_data.transitions = <<>>
    THEN [i \in 1..Len(entries) |-> SetKey(entries[i], "ambient", "none")]
    ELSE AmbientWalk(entries, TransitionsMap(ambient_data.transitions), "none")

\* lines 222-225: the entries sent to the collaborator
Replicas(entries) ==
  {i \in 1..Len(entries) : entries[i].speaker # "" /\ entries[i].speaker # Narrator}

\* _enrich_with_emotions calls the collaborator (line 239) only when there are
\* emotions to choose from and replicas to analyse
EmotionCallMade(entries, available) == available /\ Replicas(entries) # {}

\* lines 244-246 and 262-264: the default for the entries that have no emotion
FillNeutral(entries) ==
  [i \in 1..Len(entries) |->
     IF entries[i].speaker # Narrator /\ "emotion" \notin DOMAIN entries[i]
       THEN SetKey(entries[i], "emotion", Neutral) ELSE entries[i]]

\* lines 252-259: entries_by_id keeps, for an identifier, the last entry that has
\* it; that entry gets the emotion the answer gives for the identifier
ApplyEmotions(entries, emap) ==
  [i \in 1..Len(entries) |->
     IF /\ entries[i].id \in {UuidToStr(u) : u \in DOMAIN emap}
        /\ \A j \in (i + 1)..Len(entries) : entries[j].id # entries[i].id
       THEN SetKey(entries[i], "emotion", emap[StrToUuid(entries[i].id)])
       ELSE entries[i]]

\* EnrichWithEmotions with the bug "no default after a failed analysis"
EnrichWithEmotionsNoDefault(entries, available, emotion_map_data) ==
  IF ~available
    THEN [i \in 1..Len(entries) |->
            IF entries[i].speaker # Narrator
              THEN SetKey(entries[i], "emotion", Neutral) ELSE entries[i]]
  ELSE IF Replicas(entries) = {} THEN entries
  ELSE IF ~emotion_map_data.ok THEN entries
  ELSE FillNeutral(ApplyEmotions(entries, emotion_map_data.emotions))

\* _enrich_with_emotions(entries, archive, chapter_id) for the answer
\* emotion_map_data of the collaborator (ok = FALSE: None)
EnrichWithEmotions(entries, available, emotion_map_data) ==
  IF ~available
    THEN [i \in 1..Len(entries) |->
            IF entries[i].speaker # Narrator
              THEN SetKey(entries[i], "emotion", Neutral) ELSE entries[i]]
  ELSE IF Replicas(entries) = {} THEN entries
  ELSE IF ~emotion_map_data.ok THEN FillNeutral(entries)
  ELSE FillNeutral(ApplyEmotions(entries, emotion_map_data.emotions))

\* The declared fields of class ScenarioEntry.
ScenarioEntryFields == {"type", "text", "speaker", "emotion", "ambient", "audio_file"}

\* ScenarioEntry(**entry_data).model_dump(exclude_none=True): the declared
\* fields that are given, the default "none" for ambient; "id" is not declared
ScenarioEntry(entry_data) ==
  [f \in (DOMAIN entry_data \cap ScenarioEntryFields) \cup {"ambient"} |->
     IF f \in DOMAIN entry_data THEN entry_data[f] ELSE "none"]

\* what Scenario(entries=final_entries).save(path) writes
FinalScenario(entries) == [i \in 1..Len(entries) |-> ScenarioEntry(entries[i])]

\* history of one run: the stages whose completion call was made, the caches as
\* the run found them, the steps taken in order, each stage's result
NoRun ==
  [calls |-> {}, startRaw |-> NoFile, startAmb |-> NoFile, startScen |-> NoFile,
   order |-> <<>>, resA |-> <<>>, resB |-> <<>>, aFail |-> FALSE, bFail |-> FALSE,
   cFail |-> FALSE, persisted |-> FALSE, ended |-> "no"]

\* the input files of a run: the chapter's text (get_chapter_text) and the
\* book's character_archive.json (load_character_archive)
AllInputs == [text |-> TRUE, archive |-> TRUE]

\* no orchestrator run in this specification
ScIdle ==
  /\ rawCache = NoFile /\ ambCache = NoFile /\ scenarioFile = NoFile
  /\ spc = "idle" /\ work = <<>> /\ run = NoRun /\ sruns = 0 /\ emotions = TRUE
  /\ inputs = AllInputs

\* the arguments and the result of a function that has not been called
NoCall == [entries |-> <<>>, ambient_data |-> [ok |-> FALSE, transitions |-> <<>>]]
NoResult == [done |-> FALSE, entries |-> <<>>]

\* no direct function call in this specification
FnIdle == fnIn = NoCall /\ fnOut = NoResult

\* the server module as imported (state.py lines 20-23), no request made
ServerIdle ==
  /\ SERVER_STATUS = "INITIALIZING" /\ app_pipelines = "None"
  /\ background_tasks = <<>> /\ scheduled = {} /\ outcome = <<>>
  /\ nextTask = 1 /\ reply = "none" /\ reported = {}

\* call_for_pydantic has given nothing to its caller yet
NoReturn == [returned |-> FALSE, raised |-> FALSE, value |-> "None"]

MaxThreads == 2    \* threads calling the getters at the same time

Threads == 1..MaxThreads
NoThread == 0
NoInstance == 0

\* model_manager.py lines 20-26: the keys of _locks; "model" is the _model
\* attribute of the LLMService stored under llm_character_analyzer, with its
\* own lock (llm_service.py lines 27-28)
ServiceKeys == {"tts", "vc", "llm_character_analyzer", "model"}

\* model_manager.py lines 18-26, llm_service.py lines 27-28: nothing is
\* stored, every lock is free, no thread is in a getter
MmIdle ==
  /\ _services = [k \in ServiceKeys |-> NoInstance]
  /\ _locks = [k \in ServiceKeys |-> NoThread]
  /\ tpc = [t \in Threads |-> "idle"]
  /\ tkey = [t \in Threads |-> "tts"]
  /\ got = [t \in Threads |-> NoInstance]
  /\ built = [k \in ServiceKeys |-> 0]
  /\ handed = [k \in ServiceKeys |-> {}]

\* a playback cache file that does not exist
NoCacheFile == [exists |-> FALSE, build |-> 0, readable |-> FALSE, duration |-> 0, sync_map |-> <<>>]

\* no request has ended yet
NoResponse == [kind |-> "none", hit |-> FALSE, merge_called |-> FALSE, rewritten |-> FALSE,
               duration_ms |-> 0, sync_map |-> <<>>, build |-> 0]

\* no playback request in this specification
PbIdle ==
  /\ scenario_file = [exists |-> FALSE, entries |-> <<>>]
  /\ chapter_audio_dir = <<>> /\ subtitles_file = <<>>
  /\ full_audio_path = NoCacheFile /\ sync_map_path = NoCacheFile
  /\ ppc = "idle" /\ merged = [raised |-> TRUE, duration |-> 0, sync_map |-> <<>>]
  /\ builds = 0 /\ response = NoResponse

\* no call of call_for_pydantic in this specification
LlmIdle ==
  /\ lpc = "idle" /\ attempt = 0 /\ tries = 0 /\ response_text = "None"
  /\ result = NoReturn /\ delays = <<>> /\ outcomes = <<>>

\* --------------------------------------------- SpecPatch: direct method calls
\* The registries a first call of _apply_patch on an empty archive leaves behind
\* (chapter 1 of the book, creation patches only): what load_character_archive()
\* may return when the pipeline is constructed.
Seeds ==
  { ApplyPatch(<<>>, pl, Vol(1), Chap(1), 1) :
      pl \in UNION { [1..n -> CreationPatches(Cid(1))] : n \in 0..MaxChars } }

InitPatch ==
  /\ archive \in Seeds
  /\ disk = Save(archive)
  /\ nextId = Len(archive) + 1
  /\ born = BornAfter(NoBorn, <<>>, archive, Vol(1), Chap(1))
  /\ last = Op("init", <<>>, <<>>, <<>>, 0, {}, {}, FALSE)
  /\ pc = "idle"
  /\ idx = 0
  /\ runs = 0
  /\ blank = {}
  /\ ScIdle /\ FnIdle /\ LlmIdle /\ ServerIdle /\ MmIdle /\ PbIdle

\* pipeline._apply_patch(archive, patch_list, vol, chap)
CallApplyPatch ==
  /\ last.op = "init"
  /\ \E c \in 1..Len(Chapters) :
     \E patches \in PatchLists(CreationPatches(Cid(c)) \cup UpdatePatches(Cid(c))) :
       LET steps == PatchSteps(archive, patches, Vol(c), Chap(c), nextId)
           after == steps[Len(steps)]
       IN /\ Len(after) <= MaxChars
          /\ archive' = after
          /\ nextId' = nextId + (Len(after) - Len(archive))
          /\ born' = BornAfter(born, archive, after, Vol(c), Chap(c))
          /\ last' = Op("apply", archive, steps, patches, c, {}, {}, FALSE)
  /\ UNCHANGED <<disk, pc, idx, runs, blank>>
  /\ UNCHANGED <<scVars, fnVars, llmVars, taskVars, mmVars, pbVars>>
\* pipeline._add_empty_mentions(archive, ids_to_mention, chapter_id)
CallAddEmptyMentions ==
  /\ last.op = "init"
  /\ \E c \in 1..Len(Chapters) : \E ids \in SUBSET (1..MaxChars) :
       /\ archive' = AddEmptyMentions(archive, ids, Cid(c))
       /\ last' = Op("mention", archive, <<>>, <<>>, c, ids, {}, FALSE)
  /\ UNCHANGED <<disk, nextId, born, pc, idx, runs, blank>>
  /\ UNCHANGED <<scVars, fnVars, llmVars, taskVars, mmVars, pbVars>>
\* master_archive.save(path) followed by context.load_character_archive()
CallSaveLoad ==
  /\ last.op = "init"
  /\ disk' = Save(archive)
  /\ archive' = Load(disk')
  /\ last' = Op("saveload", archive, <<>>, <<>>, 0, {}, {}, TRUE)
  /\ UNCHANGED <<nextId, born, pc, idx, runs, blank>>
  /\ UNCHANGED <<scVars, fnVars, llmVars, taskVars, mmVars, pbVars>>
NextPatch == CallApplyPatch \/ CallAddEmptyMentions \/ CallSaveLoad

SpecPatch == InitPatch /\ [][NextPatch]_vars


\* ------------------------------------- Spec: passes of run() over the book
\* LLMService.call_for_pydantic(CharacterPatchList, prompt) on the collaborator's
\* answer: None (valid = FALSE) when no JSON came back or when model_validate_json
\* raises ValidationError, which it does as soon as one patch of the list fails
\* check_name_for_new_character; otherwise the validated patch list.
CallForPydantic(answer) ==
  IF answer.ok /\ \A k \in 1..Len(answer.patches) : CheckNameForNewCharacter(answer.patches[k])
    THEN [valid |-> TRUE, patches |-> answer.patches]
    ELSE [valid |-> FALSE, patches |-> <<>>]

\* What the collaborator may answer to ProposePatches for the chapter cur:
\* nothing usable (ok = FALSE), or JSON holding a list of patches: no patch, one
\* or two creation patches (with or without a name, recording the chapter or
\* not), an update patch per identifier (recording the chapter, or only adding an
\* alias), a creation followed by an update.
RawAnswers(cur) ==
  LET named == CreationPatches(cur)
      nameless == NamelessPatches
      record(i) == [id |-> i, chapter_mentions |-> (cur :> "s2")]
      alias(i) == [id |-> i, aliases |-> <<1>>]
      lists == { <<>> }
               \cup { <<p>> : p \in named \cup nameless }
               \cup { <<p, q>> : p \in named \cup nameless, q \in named \cup nameless }
               \cup UNION { { <<record(i)>>, <<alias(i)>>, <<[id |-> NoId, name |-> "n1"], record(i)>> }
                            : i \in 1..MaxChars }
  IN { [ok |-> FALSE, patches |-> <<>>] } \cup { [ok |-> TRUE, patches |-> pl] : pl \in lists }

\* What _perform_recon may return: None (ok = FALSE), or a CharacterReconResult
\* with the identifiers it says are mentioned (none, the first character's, or
\* all the registry can hold: the collaborator may name identifiers the registry
\* does not have) and names = "newly_discovered_names is not empty".
ReconResults ==
  { [ok |-> FALSE, ids |-> {}, names |-> FALSE] }
  \cup { [ok |-> TRUE, ids |-> ids, names |-> names] :
           ids \in {{}, {1}, 1..MaxChars}, names \in BOOLEAN }

\* ReconSkips with the bug "the emptiness test forgotten": only None skips
ReconSkipsNone(recon) == ~recon.ok

\* lines 70-71: not recon_result or (not ...ids and not ...names)
ReconSkips(recon) == ~recon.ok \/ (recon.ids = {} /\ ~recon.names)

Init ==
  /\ archive = <<>>
  /\ disk = <<>>
  /\ nextId = 1
  /\ born = NoBorn
  /\ last = Op("init", <<>>, <<>>, <<>>, 0, {}, {}, FALSE)
  /\ pc = "idle"
  /\ idx = 0
  /\ runs = 0
  /\ blank \in SUBSET (1..Len(Chapters))
  /\ ScIdle /\ FnIdle /\ LlmIdle /\ ServerIdle /\ MmIdle /\ PbIdle

InLoop == pc = "loop" /\ idx <= Len(Chapters)

\* run(), lines 37-52: load the archive and enter the loop over all_chapters
Start ==
  /\ pc = "idle"
  /\ runs < MaxRuns
  /\ runs' = runs + 1
  /\ IF Len(Chapters) = 0 \/ disk = Truncated
       THEN /\ pc' = "idle"    \* no chapters, or json.loads raises in load()
            /\ UNCHANGED <<archive, idx>>
       ELSE /\ archive' = Load(disk)
            /\ pc' = "loop"
            /\ idx' = 1
  /\ last' = Op(IF disk = Truncated THEN "load_error" ELSE "start",
                archive, <<>>, <<>>, 0, {}, {}, FALSE)
  /\ UNCHANGED <<disk, nextId, born, blank>>
  /\ UNCHANGED <<scVars, fnVars, llmVars, taskVars, mmVars, pbVars>>
\* lines 59-61: the chapter was analysed before
SkipProcessed ==
  /\ InLoop
  /\ IsChapterProcessed(archive, Cid(idx))
  /\ idx' = idx + 1
  /\ last' = Op("skip_processed", archive, <<>>, <<>>, idx, {}, {}, FALSE)
  /\ UNCHANGED <<archive, disk, nextId, born, pc, runs, blank>>
  /\ UNCHANGED <<scVars, fnVars, llmVars, taskVars, mmVars, pbVars>>
\* lines 63-66: the chapter file is empty
SkipBlank ==
  /\ InLoop
  /\ ~IsChapterProcessed(archive, Cid(idx))
  /\ idx \in blank
  /\ idx' = idx + 1
  /\ last' = Op("skip_blank", archive, <<>>, <<>>, idx, {}, {}, FALSE)
  /\ UNCHANGED <<archive, disk, nextId, born, pc, runs, blank>>
  /\ UNCHANGED <<scVars, fnVars, llmVars, taskVars, mmVars, pbVars>>
\* lines 69-73: _perform_recon returned None, or neither identifiers nor names
SkipRecon ==
  /\ InLoop
  /\ ~IsChapterProcessed(archive, Cid(idx))
  /\ idx \notin blank
  /\ \E recon \in ReconResults :
       /\ ReconSkips(recon)
       /\ last' = [Op(IF recon.ok THEN "recon_empty" ELSE "recon_none",
                      archive, <<>>, <<>>, idx, recon.ids, {"Identify"}, FALSE)
                   EXCEPT !.names = recon.names, !.recon_ok = recon.ok]
  /\ idx' = idx + 1
  /\ UNCHANGED <<archive, disk, nextId, born, pc, runs, blank>>
  /\ UNCHANGED <<scVars, fnVars, llmVars, taskVars, mmVars, pbVars>>
\* lines 85-95, 100: recon found something, _perform_operation returned None or
\* no patches: _add_empty_mentions for the identifiers recon named, then save
Fallback ==
  /\ InLoop
  /\ ~IsChapterProcessed(archive, Cid(idx))
  /\ idx \notin blank
  /\ \E recon \in ReconResults : \E answer \in RawAnswers(Cid(idx)) :
       LET patch_list == CallForPydantic(answer)
       IN /\ ~ReconSkips(recon)
          /\ ~patch_list.valid \/ patch_list.patches = <<>>
          /\ archive' = AddEmptyMentions(archive, recon.ids, Cid(idx))
          /\ last' = [Op("fallback", archive, <<>>, answer.patches, idx, recon.ids,
                         {"Identify", "ProposePatches"}, TRUE)
                      EXCEPT !.names = recon.names, !.patch_ok = patch_list.valid]
  /\ disk' = Save(archive')
  /\ idx' = idx + 1
  /\ UNCHANGED <<nextId, born, pc, runs, blank>>
  /\ UNCHANGED <<scVars, fnVars, llmVars, taskVars, mmVars, pbVars>>
\* lines 85-92, 96-100: recon found something, _perform_operation returned
\* patches: _apply_patch, then save
Patch ==
  /\ InLoop
  /\ ~IsChapterProcessed(archive, Cid(idx))
  /\ idx \notin blank
  /\ \E recon \in ReconResults : \E answer \in RawAnswers(Cid(idx)) :
       LET patch_list == CallForPydantic(answer)
           steps == PatchSteps(archive, patch_list.patches, Vol(idx), Chap(idx), nextId)
           after == steps[Len(steps)]
       IN /\ ~ReconSkips(recon)
          /\ patch_list.valid /\ patch_list.patches # <<>>
          /\ Len(after) <= MaxChars
          /\ archive' = after
          /\ nextId' = nextId + (Len(after) - Len(archive))
          /\ born' = BornAfter(born, archive, after, Vol(idx), Chap(idx))
          /\ last' = [Op("apply", archive, steps, patch_list.patches, idx, recon.ids,
                         {"Identify", "ProposePatches"}, TRUE)
                      EXCEPT !.names = recon.names]
  /\ disk' = Save(archive')
  /\ idx' = idx + 1
  /\ UNCHANGED <<pc, runs, blank>>
  /\ UNCHANGED <<scVars, fnVars, llmVars, taskVars, mmVars, pbVars>>
\* lines 103-104: the loop is over
Finish ==
  /\ pc = "loop"
  /\ idx > Len(Chapters)
  /\ pc' = "idle"
  /\ last' = Op("finish", archive, <<>>, <<>>, 0, {}, {}, FALSE)
  /\ UNCHANGED <<archive, disk, nextId, born, idx, runs, blank>>
  /\ UNCHANGED <<scVars, fnVars, llmVars, taskVars, mmVars, pbVars>>
\* The pass is interrupted (the process is stopped, or a call raises and line 110
\* re-raises) anywhere outside save(): the local master_archive is gone with the
\* pass, the file is as the last completed save left it.
Interrupt ==
  /\ pc = "loop"
  /\ pc' = "idle"
  /\ last' = Op("interrupt", archive, <<>>, <<>>, IF InLoop THEN idx ELSE 0, {}, {}, FALSE)
  /\ UNCHANGED <<archive, disk, nextId, born, idx, runs, blank>>
  /\ UNCHANGED <<scVars, fnVars, llmVars, taskVars, mmVars, pbVars>>
\* The pass is interrupted inside master_archive.save() of line 100, between
\* open(path, "w") and the end of json.dump (data_models.py lines 174-175).
InterruptInSave ==
  /\ InLoop
  /\ ~IsChapterProcessed(archive, Cid(idx))
  /\ idx \notin blank
  /\ disk' = Truncated
  /\ pc' = "idle"
  /\ last' = Op("interrupt_save", archive, <<>>, <<>>, idx, {},
                {"Identify", "ProposePatches"}, FALSE)
  /\ UNCHANGED <<archive, nextId, born, idx, runs, blank>>
  /\ UNCHANGED <<scVars, fnVars, llmVars, taskVars, mmVars, pbVars>>
Next ==
  \/ Start \/ SkipProcessed \/ SkipBlank \/ SkipRecon \/ Fallback \/ Patch \/ Finish
  \/ Interrupt \/ InterruptInSave

Spec == Init /\ [][Next]_vars

\* ------------------- SpecScenario: runs of ScenarioGenerationPipeline.run
MaxScRuns == 2    \* runs of the orchestrator for the chapter

\* no Knowledge Base pass in this specification
KbIdle ==
  /\ archive = <<>> /\ disk = <<>> /\ nextId = 1 /\ born = NoBorn
  /\ last = Op("init", <<>>, <<>>, <<>>, 0, {}, {}, FALSE)
  /\ pc = "idle" /\ idx = 0 /\ runs = 0 /\ blank = {}

\* What call_for_pydantic(RawScenario, prompt) may return: None, or a scenario
\* of a narration and a dialogue line, or another reading of the same chapter,
\* or dialogue lines given to the narrator and to nobody (type and speaker are
\* the collaborator's to write: any Literal type and any str pass RawScenarioEntry).
RawScenarioAnswers ==
  { [ok |-> FALSE, scenario |-> <<>>],
    [ok |-> TRUE, scenario |->
       << [id |-> 1, type |-> "narration", speaker |-> Narrator, text |-> "t1"],
          [id |-> 2, type |-> "dialogue", speaker |-> "Hero", text |-> "t2"] >>],
    [ok |-> TRUE, scenario |->
       << [id |-> 3, type |-> "dialogue", speaker |-> "Hero", text |-> "t3"] >>],
    [ok |-> TRUE, scenario |->
       << [id |-> 4, type |-> "dialogue", speaker |-> Narrator, text |-> "t4"],
          [id |-> 5, type |-> "dialogue", speaker |-> "", text |-> "t5"] >>] }

\* What call_for_pydantic(AmbientTransitionList, prompt) may return.
AmbientAnswers ==
  { [ok |-> FALSE, transitions |-> <<>>],
    [ok |-> TRUE, transitions |-> <<>>],
    [ok |-> TRUE, transitions |-> <<[entry_id |-> 1, ambientSoundId |-> "rain"]>>],
    [ok |-> TRUE, transitions |-> <<[entry_id |-> 2, ambientSoundId |-> "forest"]>>],
    [ok |-> TRUE, transitions |-> <<[entry_id |-> 1, ambientSoundId |-> "rain"],
                                   [entry_id |-> 2, ambientSoundId |-> "forest"]>>] }

\* What call_for_pydantic(EmotionMap, prompt) may return.
EmotionAnswers ==
  { [ok |-> FALSE, emotions |-> EmptyDict],
    [ok |-> TRUE, emotions |-> EmptyDict],
    [ok |-> TRUE, emotions |-> (2 :> "joy")],
    [ok |-> TRUE, emotions |-> (1 :> "fear" @@ 3 :> "joy")] }

\* CacheHit with the bug "the cache is never looked at"
CacheHitNever(file) == FALSE

\* path.exists() of lines 80 and 97
CacheHit(file) == file.exists

\* the steps of run() in program order, lines 78-124
Steps == <<"A", "B", "C", "persist", "unlink_raw", "unlink_amb">>

\* StepAfter with the bug "the caches are deleted before the scenario is saved"
StepAfterUnlinkFirst(step) ==
  CASE step = "A" -> "B"
    [] step = "B" -> "C"
    [] step = "C" -> "unlink_raw"
    [] step = "unlink_raw" -> "unlink_amb"
    [] step = "unlink_amb" -> "persist"
    [] OTHER -> "idle"

\* the statement that follows a step in run(); after the last one run() returns
StepAfter(step) ==
  LET k == CHOOSE i \in 1..Len(Steps) : Steps[i] = step
  IN IF k < Len(Steps) THEN Steps[k + 1] ELSE "idle"

InitScenario ==
  /\ KbIdle /\ FnIdle /\ LlmIdle /\ ServerIdle /\ MmIdle /\ PbIdle
  /\ rawCache = NoFile /\ ambCache = NoFile /\ scenarioFile = NoFile
  /\ spc = "idle" /\ work = <<>> /\ run = NoRun /\ sruns = 0
  /\ emotions \in BOOLEAN
  /\ inputs = AllInputs

\* CharacterArchive.load (data_models.py lines 178-183) for a file that is
\* there or not: a missing file gives an empty archive, nothing is raised
ArchiveLoadRaises(present) == FALSE

\* get_chapter_text (project_context.py lines 91-96) raises FileNotFoundError
\* when the chapter file is missing
ChapterTextRaises(present) == ~present

\* RawScenarioUsable with the bug "a missing answer is taken for an empty script"
RawScenarioUsableAlways(raw_scenario) == TRUE

\* line 88: "if not raw_scenario" (None is falsy, a RawScenario is truthy)
RawScenarioUsable(raw_scenario) == raw_scenario.ok

\* lines 61-76: a run starts with the input files that are on disk at that
\* time (the archives it loads only feed the prompts)
ScStart ==
  /\ spc = "idle"
  /\ sruns < MaxScRuns
  /\ sruns' = sruns + 1
  /\ work' = <<>>
  /\ inputs' \in [text : BOOLEAN, archive : BOOLEAN]
  /\ IF ArchiveLoadRaises(inputs'.archive)
       THEN /\ spc' = "idle"
            /\ run' = [NoRun EXCEPT !.startRaw = rawCache, !.startAmb = ambCache,
                                    !.startScen = scenarioFile, !.ended = "error"]
       ELSE /\ spc' = "A"
            /\ run' = [NoRun EXCEPT !.startRaw = rawCache, !.startAmb = ambCache,
                                    !.startScen = scenarioFile]
  /\ UNCHANGED <<rawCache, ambCache, scenarioFile, emotions>>
  /\ UNCHANGED <<kbVars, fnVars, llmVars, taskVars, mmVars, pbVars>>
\* lines 80-82: the raw-script cache exists; a cut-off file makes
\* model_validate_json raise, which ends the run (lines 134-138)
StageACached ==
  /\ spc = "A"
  /\ CacheHit(rawCache)
  /\ IF rawCache.torn
       THEN /\ spc' = "idle"
            /\ run' = [run EXCEPT !.ended = "error"]
            /\ UNCHANGED work
       ELSE /\ work' = RawToJson(JsonToRaw(rawCache.data))
            /\ spc' = StepAfter("A")
            /\ run' = [run EXCEPT !.order = Append(@, "A"), !.resA = work']
  /\ UNCHANGED <<rawCache, ambCache, scenarioFile, sruns, emotions, inputs>>
  /\ UNCHANGED <<kbVars, fnVars, llmVars, taskVars, mmVars, pbVars>>
\* lines 83-93: no cache: _generate_raw_scenario builds the prompt, which reads
\* the chapter text (prompts.py line 151), and asks the collaborator; None
\* raises ValueError (line 89) and ends the run (lines 134-138), a scenario is
\* written to the cache
StageAGenerate ==
  /\ spc = "A"
  /\ ~CacheHit(rawCache)
  /\ \E answer \in RawScenarioAnswers :
       IF ChapterTextRaises(inputs.text)
         THEN /\ spc' = "idle"
              /\ run' = [run EXCEPT !.ended = "error"]
              /\ UNCHANGED <<rawCache, work>>
       ELSE IF ~RawScenarioUsable(answer)
         THEN /\ spc' = "idle"
              /\ run' = [run EXCEPT !.calls = @ \cup {"A"}, !.aFail = ~answer.ok,
                                    !.ended = "error"]
              /\ UNCHANGED <<rawCache, work>>
         ELSE /\ rawCache' = File(RawToJson(answer.scenario))
              /\ work' = RawToJson(answer.scenario)
              /\ spc' = StepAfter("A")
              /\ run' = [run EXCEPT !.calls = @ \cup {"A"}, !.order = Append(@, "A"),
                                    !.resA = work', !.aFail = ~answer.ok]
  /\ UNCHANGED <<ambCache, scenarioFile, sruns, emotions, inputs>>
  /\ UNCHANGED <<kbVars, fnVars, llmVars, taskVars, mmVars, pbVars>>
\* lines 97-99: the ambient cache exists; a cut-off file makes json.loads raise
StageBCached ==
  /\ spc = "B"
  /\ CacheHit(ambCache)
  /\ IF ambCache.torn
       THEN /\ spc' = "idle"
            /\ run' = [run EXCEPT !.ended = "error"]
            /\ UNCHANGED work
       ELSE /\ work' = ambCache.data
            /\ spc' = StepAfter("B")
            /\ run' = [run EXCEPT !.order = Append(@, "B"), !.resB = work']
  /\ UNCHANGED <<rawCache, ambCache, scenarioFile, sruns, emotions, inputs>>
  /\ UNCHANGED <<kbVars, fnVars, llmVars, taskVars, mmVars, pbVars>>
\* lines 100-105: no cache: _enrich_with_ambient, whose result is written to the cache
StageBGenerate ==
  /\ spc = "B"
  /\ ~CacheHit(ambCache)
  /\ \E answer \in AmbientAnswers :
       /\ work' = EnrichWithAmbient(work, answer)
       /\ run' = [run EXCEPT !.calls = @ \cup {"B"}, !.order = Append(@, "B"),
                             !.resB = work', !.bFail = ~answer.ok]
  /\ ambCache' = File(work')
  /\ spc' = StepAfter("B")
  /\ UNCHANGED <<rawCache, scenarioFile, sruns, emotions, inputs>>
  /\ UNCHANGED <<kbVars, fnVars, llmVars, taskVars, mmVars, pbVars>>
\* lines 108-112: _enrich_with_emotions; nothing is cached
StageC ==
  /\ spc = "C"
  /\ \E answer \in EmotionAnswers :
       /\ work' = EnrichWithEmotions(work, emotions, answer)
       /\ run' = [run EXCEPT
                    !.calls = IF EmotionCallMade(work, emotions) THEN @ \cup {"C"} ELSE @,
                    !.order = Append(@, "C"),
                    !.cFail = EmotionCallMade(work, emotions) /\ ~answer.ok]
  /\ spc' = StepAfter("C")
  /\ UNCHANGED <<rawCache, ambCache, scenarioFile, sruns, emotions, inputs>>
  /\ UNCHANGED <<kbVars, fnVars, llmVars, taskVars, mmVars, pbVars>>
\* lines 115-120: the final scenario is built and saved
Persist ==
  /\ spc = "persist"
  /\ scenarioFile' = File(FinalScenario(work))
  /\ run' = [run EXCEPT !.order = Append(@, "persist"), !.persisted = TRUE]
  /\ spc' = StepAfter("persist")
  /\ UNCHANGED <<rawCache, ambCache, work, sruns, emotions, inputs>>
  /\ UNCHANGED <<kbVars, fnVars, llmVars, taskVars, mmVars, pbVars>>
\* line 123: raw_scenario_path.unlink(missing_ok=True)
UnlinkRaw ==
  /\ spc = "unlink_raw"
  /\ rawCache' = NoFile
  /\ run' = [run EXCEPT !.order = Append(@, "unlink_raw")]
  /\ spc' = StepAfter("unlink_raw")
  /\ UNCHANGED <<ambCache, scenarioFile, work, sruns, emotions, inputs>>
  /\ UNCHANGED <<kbVars, fnVars, llmVars, taskVars, mmVars, pbVars>>
\* lines 124-127: ambient_enriched_path.unlink(missing_ok=True); run() returns
UnlinkAmbient ==
  /\ spc = "unlink_amb"
  /\ ambCache' = NoFile
  /\ spc' = StepAfter("unlink_amb")
  /\ run' = [run EXCEPT !.order = Append(@, "unlink_amb"),
                        !.ended = IF spc' = "idle" THEN "ok" ELSE @]
  /\ UNCHANGED <<rawCache, scenarioFile, work, sruns, emotions, inputs>>
  /\ UNCHANGED <<kbVars, fnVars, llmVars, taskVars, mmVars, pbVars>>
\* The run is interrupted between two file operations (the process is stopped,
\* or a call raises): what it holds in memory is gone, the files stay.
ScInterrupt ==
  /\ spc # "idle"
  /\ spc' = "idle"
  /\ run' = [run EXCEPT !.ended = "interrupt"]
  /\ UNCHANGED <<rawCache, ambCache, scenarioFile, work, sruns, emotions, inputs>>
  /\ UNCHANGED <<kbVars, fnVars, llmVars, taskVars, mmVars, pbVars>>
\* The run is interrupted inside write_text() of line 90 or 103 or inside
\* Scenario.save() of line 120: the file being written is left cut off.
ScInterruptInWrite ==
  /\ \/ /\ spc = "A" /\ ~CacheHit(rawCache) /\ ~ChapterTextRaises(inputs.text)
        /\ rawCache' = TornFile
        /\ run' = [run EXCEPT !.calls = @ \cup {"A"}, !.ended = "interrupt"]
        /\ UNCHANGED <<ambCache, scenarioFile>>
     \/ /\ spc = "B" /\ ~CacheHit(ambCache)
        /\ ambCache' = TornFile
        /\ run' = [run EXCEPT !.calls = @ \cup {"B"}, !.ended = "interrupt"]
        /\ UNCHANGED <<rawCache, scenarioFile>>
     \/ /\ spc = "persist"
        /\ scenarioFile' = TornFile
        /\ run' = [run EXCEPT !.ended = "interrupt"]
        /\ UNCHANGED <<rawCache, ambCache>>
  /\ spc' = "idle"
  /\ UNCHANGED <<work, sruns, emotions, inputs>>
  /\ UNCHANGED <<kbVars, fnVars, llmVars, taskVars, mmVars, pbVars>>
NextScenario ==
  \/ ScStart \/ StageACached \/ StageAGenerate \/ StageBCached \/ StageBGenerate
  \/ StageC \/ Persist \/ UnlinkRaw \/ UnlinkAmbient
  \/ ScInterrupt \/ ScInterruptInWrite

SpecScenario == InitScenario /\ [][NextScenario]_vars

\* --------------------------- SpecAmbient: one call of _enrich_with_ambient
MaxEntries == 3       \* entries in the list given to _enrich_with_ambient
MaxTransitions == 2   \* transitions in the collaborator's answer

\* an entry of scenario_as_dicts with the identifier i (identifiers may repeat:
\* the collaborator writes them)
EntryDict(i) ==
  [id |-> UuidToStr(i), type |-> "narration", speaker |-> Narrator, text |-> "t"]

EntryLists == UNION { [1..n -> {EntryDict(i) : i \in 1..MaxEntries}] : n \in 0..MaxEntries }

AmbientTransitions ==
  { [entry_id |-> i, ambientSoundId |-> a] : i \in 1..MaxEntries, a \in {"rain", "forest"} }

\* what call_for_pydantic(AmbientTransitionList, prompt) may return
AmbientData ==
  { [ok |-> FALSE, transitions |-> <<>>] }
  \cup { [ok |-> TRUE, transitions |-> t] :
           t \in UNION { [1..n -> AmbientTransitions] : n \in 0..MaxTransitions } }

InitAmbient ==
  /\ KbIdle /\ ScIdle /\ LlmIdle /\ ServerIdle /\ MmIdle /\ PbIdle
  /\ fnIn \in [entries : EntryLists, ambient_data : AmbientData]
  /\ fnOut = NoResult

\* pipeline._enrich_with_ambient(entries), the collaborator answering ambient_data
CallEnrichWithAmbient ==
  /\ ~fnOut.done
  /\ fnOut' = [done |-> TRUE, entries |-> EnrichWithAmbient(fnIn.entries, fnIn.ambient_data)]
  /\ UNCHANGED <<fnIn, kbVars, scVars, llmVars, taskVars, mmVars, pbVars>>
NextAmbient == CallEnrichWithAmbient

SpecAmbient == InitAmbient /\ [][NextAmbient]_vars

\* ------------- SpecProgress: one run with a progress callback, one without
\* update_progress(progress, stage, message) of run(), lines 56-59: the callback
\* is called first, unguarded; TRUE when the call raises
UpdateProgressRaises(callback) == callback = "raises"

\* what a run leaves behind and which collaborators it called, in order
RunOutcome(calls, scenario, ended) ==
  [calls |-> calls, rawCache |-> NoFile, ambCache |-> NoFile, scenarioFile |-> scenario,
   ended |-> ended]

\* run(context, progress_callback) for a chapter with no cache and all input
\* files, the collaborator answering raw, ambient_data, emotion_map_data:
\* update_progress of line 61 stands before the try; Stage A, B, C, save and
\* unlink as in lines 78-124 (callback "none": progress_callback is None)
Run(callback, raw, ambient_data, emotion_map_data, available) ==
  IF UpdateProgressRaises(callback) THEN RunOutcome(<<>>, NoFile, "error")
  ELSE IF ~RawScenarioUsable(raw) THEN RunOutcome(<<"A">>, NoFile, "error")
  ELSE LET scenario_as_dicts == RawToJson(raw.scenario)
           ambient_enriched == EnrichWithAmbient(scenario_as_dicts, ambient_data)
           final_entries == EnrichWithEmotions(ambient_enriched, available, emotion_map_data)
           calls == IF EmotionCallMade(ambient_enriched, available)
                      THEN <<"A", "B", "C">> ELSE <<"A", "B">>
       IN RunOutcome(calls, File(FinalScenario(final_entries)), "ok")

\* what a progress callback may do when called
CallbackBehaviours == {"returns", "raises"}

InitProgress ==
  /\ KbIdle /\ ScIdle /\ LlmIdle /\ ServerIdle /\ MmIdle /\ PbIdle
  /\ fnIn \in [callback : CallbackBehaviours, raw : RawScenarioAnswers,
               ambient_data : AmbientAnswers, emotion_map_data : EmotionAnswers,
               available : BOOLEAN]
  /\ fnOut = NoResult

\* the same chapter and the same collaborator answers, run once with the
\* callback and once with progress_callback=None
CallRunTwice ==
  /\ ~fnOut.done
  /\ fnOut' = [done |-> TRUE,
               with |-> Run(fnIn.callback, fnIn.raw, fnIn.ambient_data,
                            fnIn.emotion_map_data, fnIn.available),
               without |-> Run("none", fnIn.raw, fnIn.ambient_data,
                               fnIn.emotion_map_data, fnIn.available)]
  /\ UNCHANGED <<fnIn, kbVars, scVars, llmVars, taskVars, mmVars, pbVars>>
NextProgress == CallRunTwice

SpecProgress == InitProgress /\ [][NextProgress]_vars

\* ---------------------- SpecLLM: one call of LLMService.call_for_pydantic
\* line 62
max_retries == 3

\* What one generate_content call (lines 68-86) may end in: a response with no
\* candidates, a response whose text is one of ResponseTexts, ResourceExhausted
\* with or without a "Please retry in Ns" hint, any other exception (transport
\* error, timeout, response.text raising for a candidate without text).
Failures ==
  { [kind |-> "quota", hinted |-> FALSE, hint |-> 0],
    [kind |-> "error", hinted |-> FALSE, hint |-> 0] }
  \cup { [kind |-> "quota", hinted |-> TRUE, hint |-> h] : h \in {0, 5, 30} }

\* a generate_content call that raised nothing
Outcome(kind) == [kind |-> kind, hinted |-> FALSE, hint |-> 0]

\* the texts of a response, by what the parsing of lines 116-126 makes of them
ResponseTexts == {"", "no json", "{not json}", "{other schema}", "{valid}"}

\* _extract_json_from_response(_sanitize_json_string(text)), lines 42-53: the
\* first brace or bracket group, None when the text has none
ExtractJson(text) == IF text \in {"", "no json"} THEN "None" ELSE text

\* pydantic_model.model_validate_json(json_str) raises ValidationError (line 123)
ValidationError(json_str) == json_str # "{valid}"

\* Delay with the bug "the provider's hint is ignored"
DelayNoHint(failure, n) == 2 ^ (n + 1)

\* Caught with the bug "only quota errors are handled"
CaughtQuotaOnly(failure) == failure.kind = "quota"

\* lines 90 and 102: except ResourceExhausted, except Exception
Caught(failure) == failure.kind \in {"quota", "error"}

\* lines 91-107: the argument of time.sleep after a failed attempt
Delay(failure, n) ==
  IF failure.kind = "quota" /\ failure.hinted THEN failure.hint + 1 ELSE 2 ^ (n + 1)

\* lines 109-126: what call_for_pydantic returns once the loop is left
Parse(text) ==
  IF text \in {"None", ""} THEN "None"
  ELSE IF ExtractJson(text) = "None" THEN "None"
  ELSE IF ValidationError(ExtractJson(text)) THEN "None"
  ELSE "model"

Return(value) == [returned |-> TRUE, raised |-> FALSE, value |-> value]
Raise == [returned |-> FALSE, raised |-> TRUE, value |-> "None"]

InitLLM ==
  /\ KbIdle /\ ScIdle /\ FnIdle /\ ServerIdle /\ MmIdle /\ PbIdle
  /\ lpc = "idle" /\ attempt = 0 /\ tries = 0 /\ response_text = "None"
  /\ result = NoReturn /\ delays = <<>> /\ outcomes = <<>>

\* lines 55-63: call_for_pydantic is called; the loop starts at attempt 0
LlmCall ==
  /\ lpc = "idle" /\ ~result.returned /\ ~result.raised
  /\ lpc' = "try"
  /\ UNCHANGED <<attempt, tries, response_text, result, delays, outcomes>>
  /\ UNCHANGED <<kbVars, scVars, fnVars, taskVars, mmVars, pbVars>>
\* lines 80-84: the response has no candidates: return None at once
LlmBlocked ==
  /\ lpc = "try"
  /\ tries' = tries + 1
  /\ result' = Return("None")
  /\ lpc' = "done"
  /\ outcomes' = Append(outcomes, Outcome("blocked"))
  /\ UNCHANGED <<attempt, response_text, delays>>
  /\ UNCHANGED <<kbVars, scVars, fnVars, taskVars, mmVars, pbVars>>
\* lines 86-88 and 109-126: the response has a text: break, parse, return
LlmAnswered ==
  /\ lpc = "try"
  /\ \E text \in ResponseTexts :
       /\ response_text' = text
       /\ result' = Return(Parse(text))
  /\ tries' = tries + 1
  /\ lpc' = "done"
  /\ outcomes' = Append(outcomes, Outcome("text"))
  /\ UNCHANGED <<attempt, delays>>
  /\ UNCHANGED <<kbVars, scVars, fnVars, taskVars, mmVars, pbVars>>
\* lines 90-107: the attempt raised: sleep, then the next attempt; after the
\* last attempt the loop ends and lines 109-111 return None
LlmFailed ==
  /\ lpc = "try"
  /\ tries' = tries + 1
  /\ \E failure \in Failures :
       /\ outcomes' = Append(outcomes, failure)
       /\ IF Caught(failure)
            THEN /\ delays' = Append(delays, Delay(failure, attempt))
                 /\ attempt' = attempt + 1
                 /\ IF attempt' < max_retries
                      THEN lpc' = "try" /\ UNCHANGED result
                      ELSE lpc' = "done" /\ result' = Return(Parse(response_text))
            ELSE /\ result' = Raise
                 /\ lpc' = "done"
                 /\ UNCHANGED <<attempt, delays>>
  /\ UNCHANGED response_text
  /\ UNCHANGED <<kbVars, scVars, fnVars, taskVars, mmVars, pbVars>>
NextLLM == LlmCall \/ LlmBlocked \/ LlmAnswered \/ LlmFailed

SpecLLM == InitLLM /\ [][NextLLM]_vars

\* time.sleep returns and generate_content returns or raises within its
\* timeout of 120 s (line 66): a call that has started keeps taking steps
SpecLLMFair == SpecLLM /\ WF_vars(NextLLM)

\* ------------------- SpecMerge: one call of audio_merger.merge_chapter_audio
MaxSlots == 2     \* entries of the scenario given to merge_chapter_audio

\* a file name of the audio directory: Path.stem and the extension
Name(i, ext) == [stem |-> UuidToStr(i), ext |-> ext]

\* a file name that is None or empty
NoName == [stem |-> <<>>, ext |-> ""]

\* line 54
Extensions == <<".mp3", ".ogg", ".flac", ".wav">>

\* entry.id of line 42: class ScenarioEntry declares no such attribute
HasId(entry) == "id" \in DOMAIN entry

\* lines 43-49: the name from the subtitles map if it is not empty, else the
\* entry's own audio_file if it is not empty, else "<eid>.wav"
AudioFilename(entry, subtitles_map) ==
  LET eid == entry.id
      sub == IF eid \in DOMAIN subtitles_map THEN subtitles_map[eid] ELSE NoName
      own == IF "audio_file" \in DOMAIN entry THEN entry.audio_file ELSE NoName
  IN IF sub # NoName THEN sub
     ELSE IF own # NoName THEN own
     ELSE [stem |-> eid, ext |-> ".wav"]

\* lines 51-58: the named file, or, when it does not exist, the first of the
\* same stem with another extension that does
FilePath(audio_filename, files) ==
  IF audio_filename \in DOMAIN files THEN audio_filename
  ELSE LET alts == {k \in 1..Len(Extensions) :
                      [stem |-> audio_filename.stem, ext |-> Extensions[k]] \in DOMAIN files}
       IN IF alts = {} THEN audio_filename
          ELSE [stem |-> audio_filename.stem, ext |-> Extensions[Min(alts)]]

\* lines 60-75: len(segment) of the file when it exists and AudioSegment.from_file
\* reads it, 0 otherwise
SegmentDuration(file_path, files) ==
  IF file_path \in DOMAIN files /\ files[file_path].ok THEN files[file_path].ms ELSE 0

\* lines 80-86
SyncItem(entry, entry_start, entry_end) ==
  [text |-> entry.text, start_ms |-> entry_start, end_ms |-> entry_end,
   speaker |-> entry.speaker,
   ambient |-> IF entry.ambient = "" THEN "none" ELSE entry.ambient]

\* what merge_chapter_audio gives its caller: the tuple of line 98, or an exception
Merged(duration, sync_map) == [raised |-> FALSE, duration |-> duration, sync_map |-> sync_map]
MergeRaised == [raised |-> TRUE, duration |-> 0, sync_map |-> <<>>]

\* lines 41-89: the loop from entry i on, with the length of combined_audio, the
\* offset and the sync map so far (gap_ms is 0; appending a segment adds its length)
RECURSIVE MergeLoop(_, _, _, _, _, _, _)
MergeLoop(entries, i, combined, current_offset_ms, sync_map, files, subtitles_map) ==
  IF i > Len(entries) THEN Merged(combined, sync_map)
  ELSE IF ~HasId(entries[i]) THEN MergeRaised
  ELSE LET file_path == FilePath(AudioFilename(entries[i], subtitles_map), files)
           segment_duration == SegmentDuration(file_path, files)
           entry_end == current_offset_ms + segment_duration
       IN MergeLoop(entries, i + 1, combined + segment_duration, entry_end,
                    Append(sync_map, SyncItem(entries[i], current_offset_ms, entry_end)),
                    files, subtitles_map)

\* merge_chapter_audio(scenario, audio_dir, output_file_path, subtitles_map)
MergeChapterAudio(entries, files, subtitles_map) ==
  MergeLoop(entries, 1, 0, 0, <<>>, files, subtitles_map)

\* The entries Scenario.load gives (mobile_api_router.py line 338): ScenarioEntry
\* objects, built from the objects of scenario.json.
LoadedEntries ==
  { ScenarioEntry([id |-> UuidToStr(1), type |-> "narration", speaker |-> Narrator,
                   text |-> "t1", ambient |-> "rain"]),
    ScenarioEntry([id |-> UuidToStr(2), type |-> "dialogue", speaker |-> "Hero",
                   text |-> "t2", emotion |-> Neutral, audio_file |-> Name(2, ".wav")]) }

Scenarios == UNION { [1..n -> LoadedEntries] : n \in 0..MaxSlots }

\* the audio directory: any of three files, one of which cannot be decoded
AudioFiles == {Name(1, ".wav"), Name(1, ".mp3"), Name(2, ".wav")}
AudioDirs ==
  { [f \in S |-> [ms |-> IF f.stem = UuidToStr(1) THEN 2000 ELSE 1500,
                  ok |-> f # Name(1, ".mp3")]] : S \in SUBSET AudioFiles }

\* subtitles_map of mobile_api_router.py lines 369-376, by entry id: the
\* audio_file of the subtitle entry
SubtitleMaps ==
  { [k \in {} |-> NoName], (UuidToStr(1) :> Name(2, ".wav")), (UuidToStr(2) :> NoName) }

InitMerge ==
  /\ KbIdle /\ ScIdle /\ LlmIdle /\ ServerIdle /\ MmIdle /\ PbIdle
  /\ fnIn \in [entries : Scenarios, files : AudioDirs, subtitles_map : SubtitleMaps]
  /\ fnOut = NoResult

CallMergeChapterAudio ==
  /\ ~fnOut.done
  /\ fnOut' = [done |-> TRUE,
               merged |-> MergeChapterAudio(fnIn.entries, fnIn.files, fnIn.subtitles_map)]
  /\ UNCHANGED <<fnIn, kbVars, scVars, llmVars, taskVars, mmVars, pbVars>>
NextMerge == CallMergeChapterAudio

SpecMerge == InitMerge /\ [][NextMerge]_vars

\* ------------------ SpecServer: the server's state and its background tasks
\* lifespan (api_server.py lines 50-70) assigns SERVER_STATUS and app_pipelines;
\* start_task, run_task_wrapper and update_task_progress (api/state.py lines
\* 28-62, the same text as api_server.py lines 122-160) read and write them.
MaxTasks == 2     \* start_task requests that get as far as creating a task

\* what a progress report may carry
Progresses == {50, 100}

\* lines 58-60: the record of a new task
QueuedTask == [status |-> "queued", progress |-> 0, stage |-> "queued", message |-> "queued"]

\* StartTaskAllowed with the bug "only the ERROR status rejects"
StartTaskAllowedUnlessError(status, pipelines) == status # "ERROR"

\* lines 52-55: neither HTTPException is raised
StartTaskAllowed(status, pipelines) == status = "READY" /\ pipelines # "None"

\* lines 52-55: the exception start_task raises when it is not allowed
StartTaskError(status, pipelines) == IF status # "READY" THEN "503" ELSE "500"

\* StatusAfter with the bug "the task is complete whatever happened"
StatusAfterAlwaysComplete(raised) == "complete"

\* lines 41-45: the status run_task_wrapper sets when target_func has ended
StatusAfter(raised) == IF raised THEN "failed" ELSE "complete"

\* lines 28-33: update_task_progress
UpdateTaskProgress(tasks, task_id, progress) ==
  IF task_id \in DOMAIN tasks
    THEN [tasks EXCEPT ![task_id].progress = progress, ![task_id].stage = "stage",
                       ![task_id].message = "message"]
    ELSE tasks

\* The two copies of the server's globals: api_server.py lines 39-47, which
\* lifespan assigns, and api/state.py lines 20-23, which nothing assigns
Modules == {"api_server", "api.state"}

\* SERVER_STATUS as the module's start_task reads it
StatusSeen(module, status) == IF module = "api_server" THEN status ELSE "INITIALIZING"

\* app_pipelines as the module's routes and start_task read it
PipelinesSeen(module, pipelines) == IF module = "api_server" THEN pipelines ELSE "None"

InitServer == KbIdle /\ ScIdle /\ FnIdle /\ LlmIdle /\ ServerIdle /\ MmIdle /\ PbIdle

\* lifespan, lines 56-64: Application(...) returned
LifespanReady ==
  /\ SERVER_STATUS = "INITIALIZING"
  /\ app_pipelines' = "Application"
  /\ SERVER_STATUS' = "READY"
  /\ UNCHANGED <<background_tasks, scheduled, outcome, nextTask, reply, reported>>
  /\ UNCHANGED <<kbVars, scVars, fnVars, llmVars, mmVars, pbVars>>
\* lifespan, lines 65-68: Application(...) raised, app_pipelines stays None
LifespanError ==
  /\ SERVER_STATUS = "INITIALIZING"
  /\ SERVER_STATUS' = "ERROR"
  /\ UNCHANGED <<app_pipelines, background_tasks, scheduled, outcome, nextTask, reply, reported>>
  /\ UNCHANGED <<kbVars, scVars, fnVars, llmVars, mmVars, pbVars>>
\* start_task (lines 50-62), called with a function of the caller's or by a
\* route, which evaluates app_pipelines.<pipeline>.run first (ai_tasks.py
\* line 15) and so raises AttributeError on None
StartTask ==
  /\ nextTask <= MaxTasks
  /\ \E module \in Modules : \E route \in BOOLEAN :
       LET status == StatusSeen(module, SERVER_STATUS)
           pipelines == PipelinesSeen(module, app_pipelines)
       IN  IF route /\ pipelines = "None"
             THEN /\ reply' = "AttributeError"
                  /\ UNCHANGED <<background_tasks, scheduled, outcome, nextTask>>
           ELSE IF ~StartTaskAllowed(status, pipelines)
             THEN /\ reply' = StartTaskError(status, pipelines)
                  /\ UNCHANGED <<background_tasks, scheduled, outcome, nextTask>>
             ELSE /\ background_tasks' = (nextTask :> QueuedTask) @@ background_tasks
                  /\ scheduled' = scheduled \cup {nextTask}
                  /\ outcome' = (nextTask :> "none") @@ outcome
                  /\ nextTask' = nextTask + 1
                  /\ reply' = "accepted"
  /\ UNCHANGED <<SERVER_STATUS, app_pipelines, reported>>
  /\ UNCHANGED <<kbVars, scVars, fnVars, llmVars, mmVars, pbVars>>
\* run_task_wrapper, line 38: the scheduled wrapper starts
TaskBegins ==
  /\ \E task_id \in scheduled :
       /\ scheduled' = scheduled \ {task_id}
       /\ background_tasks' = [background_tasks EXCEPT ![task_id].status = "processing"]
  /\ UNCHANGED <<SERVER_STATUS, app_pipelines, outcome, nextTask, reply, reported>>
  /\ UNCHANGED <<kbVars, scVars, fnVars, llmVars, mmVars, pbVars>>
\* the task_ids whose target_func is running
Running ==
  {t \in DOMAIN background_tasks : background_tasks[t].status = "processing" /\ outcome[t] = "none"}

\* target_func calls progress_callback (line 39), or update_task_progress is
\* called with a task_id the table does not hold
ProgressReport ==
  /\ \E task_id \in Running \cup {0} : \E progress \in Progresses :
       /\ background_tasks' = UpdateTaskProgress(background_tasks, task_id, progress)
       /\ reported' = {task_id}
  /\ UNCHANGED <<SERVER_STATUS, app_pipelines, scheduled, outcome, nextTask, reply>>
  /\ UNCHANGED <<kbVars, scVars, fnVars, llmVars, mmVars, pbVars>>
\* run_task_wrapper, lines 41-47: target_func returns or raises
TaskEnds ==
  /\ \E task_id \in Running : \E raised \in BOOLEAN :
       /\ outcome' = [outcome EXCEPT ![task_id] = IF raised THEN "raised" ELSE "returned"]
       /\ background_tasks' =
            IF raised
              THEN [background_tasks EXCEPT ![task_id].status = StatusAfter(raised),
                                            ![task_id].message = "error",
                                            ![task_id].stage = "error"]
              ELSE [background_tasks EXCEPT ![task_id].status = StatusAfter(raised)]
  /\ UNCHANGED <<SERVER_STATUS, app_pipelines, scheduled, nextTask, reply, reported>>
  /\ UNCHANGED <<kbVars, scVars, fnVars, llmVars, mmVars, pbVars>>
NextServer ==
  \/ LifespanReady \/ LifespanError \/ StartTask \/ TaskBegins \/ ProgressReport \/ TaskEnds

SpecServer == InitServer /\ [][NextServer]_vars

\* ---------- SpecModelManager: lazy construction of the services by threads
\* get_tts_service, get_vc_service, get_llm_service (model_manager.py lines
\* 28-69) and LLMService.model (llm_service.py lines 31-40) are the same
\* double-checked locking; a thread's steps are the points where another
\* thread can run in between.
InitModelManager == KbIdle /\ ScIdle /\ FnIdle /\ LlmIdle /\ ServerIdle /\ MmIdle /\ PbIdle

\* SecondCheck with the bug "the key is not looked up again under the lock"
SecondCheckSkipped(services, service_key) == TRUE

\* lines 31, 40, 65 (llm_service.py line 34): the lookup before the lock
FirstCheck(services, service_key) == services[service_key] = NoInstance

\* lines 33, 42, 67 (llm_service.py line 36): the lookup under the lock
SecondCheck(services, service_key) == services[service_key] = NoInstance

\* a thread calls a getter; LLMService.model needs an LLMService to call it on
GetService(t) ==
  /\ tpc[t] = "idle"
  /\ \E service_key \in ServiceKeys :
       /\ service_key = "model" => handed["llm_character_analyzer"] # {}
       /\ tkey' = [tkey EXCEPT ![t] = service_key]
  /\ tpc' = [tpc EXCEPT ![t] = "check"]
  /\ UNCHANGED <<_services, _locks, got, built, handed>>
  /\ UNCHANGED <<kbVars, scVars, fnVars, llmVars, taskVars, pbVars>>
\* if service_key not in self._services
Check(t) ==
  /\ tpc[t] = "check"
  /\ tpc' = [tpc EXCEPT ![t] = IF FirstCheck(_services, tkey[t]) THEN "acquire" ELSE "return"]
  /\ UNCHANGED <<_services, _locks, tkey, got, built, handed>>
  /\ UNCHANGED <<kbVars, scVars, fnVars, llmVars, taskVars, pbVars>>
\* with self._locks[service_key]: the thread waits until the lock is free
Acquire(t) ==
  /\ tpc[t] = "acquire"
  /\ _locks[tkey[t]] = NoThread
  /\ _locks' = [_locks EXCEPT ![tkey[t]] = t]
  /\ tpc' = [tpc EXCEPT ![t] = "locked"]
  /\ UNCHANGED <<_services, tkey, got, built, handed>>
  /\ UNCHANGED <<kbVars, scVars, fnVars, llmVars, taskVars, pbVars>>
\* under the lock: the second lookup, and the constructor returns
Construct(t) ==
  /\ tpc[t] = "locked"
  /\ IF SecondCheck(_services, tkey[t])
       THEN /\ built' = [built EXCEPT ![tkey[t]] = @ + 1]
            /\ _services' = [_services EXCEPT ![tkey[t]] = built[tkey[t]] + 1]
       ELSE UNCHANGED <<_services, built>>
  /\ tpc' = [tpc EXCEPT ![t] = "release"]
  /\ UNCHANGED <<_locks, tkey, got, handed>>
  /\ UNCHANGED <<kbVars, scVars, fnVars, llmVars, taskVars, pbVars>>
\* under the lock: the constructor raises; the with statement frees the lock
\* and the getter ends with the exception
ConstructRaises(t) ==
  /\ tpc[t] = "locked"
  /\ SecondCheck(_services, tkey[t])
  /\ _locks' = [_locks EXCEPT ![tkey[t]] = NoThread]
  /\ tpc' = [tpc EXCEPT ![t] = "idle"]
  /\ got' = [got EXCEPT ![t] = NoInstance]
  /\ UNCHANGED <<_services, tkey, built, handed>>
  /\ UNCHANGED <<kbVars, scVars, fnVars, llmVars, taskVars, pbVars>>
\* the end of the with block
Release(t) ==
  /\ tpc[t] = "release"
  /\ _locks' = [_locks EXCEPT ![tkey[t]] = NoThread]
  /\ tpc' = [tpc EXCEPT ![t] = "return"]
  /\ UNCHANGED <<_services, tkey, got, built, handed>>
  /\ UNCHANGED <<kbVars, scVars, fnVars, llmVars, taskVars, pbVars>>
\* return self._services[service_key]
ReturnService(t) ==
  /\ tpc[t] = "return"
  /\ got' = [got EXCEPT ![t] = _services[tkey[t]]]
  /\ handed' = [handed EXCEPT ![tkey[t]] = @ \cup {_services[tkey[t]]}]
  /\ tpc' = [tpc EXCEPT ![t] = "idle"]
  /\ UNCHANGED <<_services, _locks, tkey, built>>
  /\ UNCHANGED <<kbVars, scVars, fnVars, llmVars, taskVars, pbVars>>
NextModelManager ==
  \E t \in Threads :
    \/ GetService(t) \/ Check(t) \/ Acquire(t) \/ Construct(t) \/ ConstructRaises(t)
    \/ Release(t) \/ ReturnService(t)

SpecModelManager == InitModelManager /\ [][NextModelManager]_vars

\* -------- SpecPlayback: requests to get_chapter_playback_data for one chapter
\* mobile_api_router.py lines 303-398. The handler has no await, so requests do
\* not interleave; the process can die between the export of the audio file
\* (audio_merger.py lines 95-96) and the end of json.dump (lines 385-386).
MaxBuilds == 2    \* merges that export full_chapter.mp3

\* lines 341-347: a file of the audio directory other than full_chapter.mp3
\* with an audio suffix; every per-entry file of AudioDirs has one
HasSourceAudio(audio_dir) == DOMAIN audio_dir # {}

\* lines 352-360: the items of the text-only answer
RECURSIVE TextOnlyMap(_)
TextOnlyMap(entries) ==
  IF entries = <<>> THEN <<>>
  ELSE <<SyncItem(Head(entries), 0, 0)>> \o TextOnlyMap(Tail(entries))

\* CacheUsable with the bug "the cache is served although a rebuild was asked for"
CacheUsableIgnoringForce(audio, map, force_rebuild) == audio.exists /\ map.exists /\ map.readable

\* lines 317-331: both files exist, no rebuild is asked for, and json.loads and
\* SyncMapEntryDto(**item) raise nothing
CacheUsable(audio, map, force_rebuild) ==
  audio.exists /\ map.exists /\ ~force_rebuild /\ map.readable

\* lines 321-323: duration_ms of a cached answer
CachedDuration(sync_data) ==
  IF sync_data = <<>> THEN 0 ELSE sync_data[Len(sync_data)].end_ms

InitPlayback ==
  /\ KbIdle /\ ScIdle /\ FnIdle /\ LlmIdle /\ ServerIdle /\ MmIdle
  /\ scenario_file \in {[exists |-> FALSE, entries |-> <<>>]}
                         \cup {[exists |-> TRUE, entries |-> es] : es \in Scenarios}
  /\ chapter_audio_dir \in AudioDirs
  /\ subtitles_file \in SubtitleMaps
  /\ full_audio_path = NoCacheFile /\ sync_map_path = NoCacheFile
  /\ ppc = "idle" /\ merged = MergeRaised
  /\ builds = 0 /\ response = NoResponse

\* lines 303-383: a request up to the return of merge_chapter_audio, which has
\* exported the audio file when it returns
GetChapterPlaybackData ==
  /\ ppc = "idle"
  /\ \E force_rebuild \in BOOLEAN :
       LET hit == CacheUsable(full_audio_path, sync_map_path, force_rebuild)
           merge_result == MergeChapterAudio(scenario_file.entries, chapter_audio_dir, subtitles_file)
           base == [NoResponse EXCEPT !.hit = hit]
       IN  /\ hit \/ builds < MaxBuilds
           /\ IF hit
                THEN /\ response' = [base EXCEPT !.kind = "cached",
                                       !.duration_ms = CachedDuration(sync_map_path.sync_map),
                                       !.sync_map = sync_map_path.sync_map,
                                       !.build = sync_map_path.build]
                     /\ UNCHANGED <<full_audio_path, ppc, merged, builds>>
              ELSE IF ~scenario_file.exists
                THEN /\ response' = [base EXCEPT !.kind = "404"]
                     /\ UNCHANGED <<full_audio_path, ppc, merged, builds>>
              ELSE IF ~HasSourceAudio(chapter_audio_dir)
                THEN /\ response' = [base EXCEPT !.kind = "text_only",
                                       !.sync_map = TextOnlyMap(scenario_file.entries)]
                     /\ UNCHANGED <<full_audio_path, ppc, merged, builds>>
              ELSE IF merge_result.raised
                THEN /\ response' = [base EXCEPT !.kind = "500", !.merge_called = TRUE]
                     /\ UNCHANGED <<full_audio_path, ppc, merged, builds>>
                ELSE /\ builds' = builds + 1
                     /\ full_audio_path' = [exists |-> TRUE, build |-> builds + 1, readable |-> TRUE,
                                            duration |-> merge_result.duration,
                                            sync_map |-> merge_result.sync_map]
                     /\ merged' = merge_result
                     /\ ppc' = "merged"
                     /\ response' = [base EXCEPT !.kind = "running", !.merge_called = TRUE]
  /\ UNCHANGED <<scenario_file, chapter_audio_dir, subtitles_file, sync_map_path>>
  /\ UNCHANGED <<kbVars, scVars, fnVars, llmVars, taskVars, mmVars>>

\* lines 385-392: the sync map is written and the answer returned
WriteSyncMap ==
  /\ ppc = "merged"
  /\ sync_map_path' = [exists |-> TRUE, build |-> full_audio_path.build, readable |-> TRUE,
                       duration |-> merged.duration, sync_map |-> merged.sync_map]
  /\ response' = [response EXCEPT !.kind = "built", !.rewritten = TRUE,
                                  !.duration_ms = merged.duration,
                                  !.sync_map = merged.sync_map,
                                  !.build = full_audio_path.build]
  /\ ppc' = "idle"
  /\ UNCHANGED <<scenario_file, chapter_audio_dir, subtitles_file, full_audio_path, merged, builds>>
  /\ UNCHANGED <<kbVars, scVars, fnVars, llmVars, taskVars, mmVars>>

\* the process dies after the export and before open(sync_map_path, "w")
KilledBeforeSyncMap ==
  /\ ppc = "merged"
  /\ response' = [response EXCEPT !.kind = "killed"]
  /\ ppc' = "idle"
  /\ UNCHANGED <<scenario_file, chapter_audio_dir, subtitles_file, full_audio_path,
                 sync_map_path, merged, builds>>
  /\ UNCHANGED <<kbVars, scVars, fnVars, llmVars, taskVars, mmVars>>

\* the process dies after open(sync_map_path, "w") has truncated the file and
\* before json.dump has written it out
KilledInSyncMapWrite ==
  /\ ppc = "merged"
  /\ sync_map_path' = [exists |-> TRUE, build |-> full_audio_path.build, readable |-> FALSE,
                       duration |-> 0, sync_map |-> <<>>]
  /\ response' = [response EXCEPT !.kind = "killed"]
  /\ ppc' = "idle"
  /\ UNCHANGED <<scenario_file, chapter_audio_dir, subtitles_file, full_audio_path, merged, builds>>
  /\ UNCHANGED <<kbVars, scVars, fnVars, llmVars, taskVars, mmVars>>

\* the TTS or VC pipeline writes or replaces per-entry audio files
AudioFilesChange ==
  /\ ppc = "idle"
  /\ chapter_audio_dir' \in AudioDirs \ {chapter_audio_dir}
  /\ UNCHANGED <<scenario_file, subtitles_file, full_audio_path, sync_map_path, ppc, merged,
                 builds, response>>
  /\ UNCHANGED <<kbVars, scVars, fnVars, llmVars, taskVars, mmVars>>

NextPlayback ==
  \/ GetChapterPlaybackData \/ WriteSyncMap \/ KilledBeforeSyncMap \/ KilledInSyncMapWrite
  \/ AudioFilesChange

SpecPlayback == InitPlayback /\ [][NextPlayback]_vars

\* =================================================================== claims
\* The patches of the last _apply_patch call, by position: patch k turned
\* Pre(k) into Post(k).
ApplySteps == IF last.op = "apply" THEN 1..Len(last.patches) ELSE {}
Pre(k) == last.steps[k]
Post(k) == last.steps[k + 1]
PatchAt(k) == last.patches[k]
CharOf(chars, id) == chars[PosOf(chars, id)]
UniqueIds(chars) == Cardinality(Ids(chars)) = Len(chars)
TextFields == {"name", "description", "spoiler_free_description"}

\* C2 (as claimed): an update patch, whatever its aliases field holds (unset,
\* empty list, non-empty list), leaves the character's alias set a superset of
\* what it was before the patch.
C2_AliasesOnlyGrow ==
  \A k \in ApplySteps :
    IsUpdate(Pre(k), PatchAt(k)) =>
      Range(CharOf(Pre(k), PatchAt(k).id).aliases)
        \subseteq Range(CharOf(Post(k), PatchAt(k).id).aliases)

\* C3: _apply_patch and _add_empty_mentions remove no character and change no
\* identifier: after each patch and after each call every identifier that was in
\* the registry is still there, at the same place, and no two characters share one.
C3_IdentityStable ==
  /\ UniqueIds(archive)
  /\ last.op \in {"apply", "mention", "fallback"} =>
       /\ Len(archive) >= Len(last.before)
       /\ \A i \in 1..Len(last.before) : archive[i].id = last.before[i].id
  /\ \A k \in ApplySteps :
       /\ UniqueIds(Post(k))
       /\ Ids(Pre(k)) \subseteq Ids(Post(k))

\* C3 witness: in a second pass, a call of _apply_patch updated a character of
\* a registry of two that an earlier _add_empty_mentions had marked.
C3_Witness ==
  /\ last.op = "apply"
  /\ runs >= 2
  /\ Len(last.before) = 2
  /\ \E i \in 1..2 : \E c \in DOMAIN last.before[i].chapter_mentions :
       last.before[i].chapter_mentions[c] = EmptyMention
  /\ \E k \in ApplySteps : IsUpdate(Pre(k), PatchAt(k)) /\ Post(k) # Pre(k)

\* C4 (as claimed): every character carries a first-mention value, equal to the
\* one computed from the chapter it was created in.
C4_FirstMentionKept ==
  \A i \in 1..Len(archive) :
    /\ "first_mention" \in DOMAIN archive[i]
    /\ archive[i].first_mention = born[archive[i].id]

\* C5: an update patch leaves every field it does not set as it was, and leaves
\* every other character of the registry as it was.
C5_UnsetFieldsKept ==
  \A k \in ApplySteps :
    IsUpdate(Pre(k), PatchAt(k)) =>
      LET id == PatchAt(k).id
      IN /\ Len(Post(k)) = Len(Pre(k))
         /\ \A f \in CharacterFields \ DOMAIN PatchAt(k) :
              CharOf(Post(k), id)[f] = CharOf(Pre(k), id)[f]
         /\ CharOf(Post(k), id).id = id
         /\ \A j \in 1..Len(Pre(k)) : Pre(k)[j].id # id => Post(k)[j] = Pre(k)[j]

\* C5 witness: an update patch that sets some field and leaves others unset is
\* applied to one of two characters whose unset fields hold non-default values.
C5_Witness ==
  \E k \in ApplySteps :
    /\ IsUpdate(Pre(k), PatchAt(k))
    /\ Len(Pre(k)) = 2
    /\ Post(k) # Pre(k)
    /\ ~IsSet(PatchAt(k), "aliases") /\ ~IsSet(PatchAt(k), "chapter_mentions")
    /\ IsSet(PatchAt(k), "name")
    /\ CharOf(Pre(k), PatchAt(k).id).aliases # <<>>
    /\ DOMAIN CharOf(Pre(k), PatchAt(k).id).chapter_mentions # {}

\* C6 (as claimed): an update patch whose chapter_mentions field is set, also to
\* an empty map, keeps every chapter key the character had, with the same
\* summary unless the patch provides that key.
C6_MentionsUpserted ==
  \A k \in ApplySteps :
    (IsUpdate(Pre(k), PatchAt(k)) /\ IsSet(PatchAt(k), "chapter_mentions")) =>
      LET old == CharOf(Pre(k), PatchAt(k).id).chapter_mentions
          new == CharOf(Post(k), PatchAt(k).id).chapter_mentions
          given == PatchAt(k).chapter_mentions
      IN \A key \in DOMAIN old :
           /\ key \in DOMAIN new
           /\ new[key] = IF key \in DOMAIN given THEN given[key] ELSE old[key]

C9_CreationComplete ==
  \A k \in ApplySteps :
    IsCreation(Pre(k), PatchAt(k)) =>
      /\ Len(Post(k)) = Len(Pre(k)) + 1
      /\ SubSeq(Post(k), 1, Len(Pre(k))) = Pre(k)
      /\ LET new == Post(k)[Len(Post(k))]
         IN /\ new.id \notin Ids(Pre(k))
            /\ new.name = PatchAt(k).name
            /\ ~IsSet(PatchAt(k), "description") => new.description = Placeholder
            /\ ~IsSet(PatchAt(k), "spoiler_free_description")
                 => new.spoiler_free_description = Placeholder
            /\ "first_mention" \in DOMAIN new
            /\ new.first_mention = FirstMention(Vol(last.chapter), Chap(last.chapter))


\* ------------------------------------------------------ claims about passes
\* the steps of the loop of run(), one per chapter
ChapterOps == {"skip_processed", "skip_blank", "recon_none", "recon_empty", "fallback", "apply"}

\* at least one character's chapter-mentions map contains the chapter's identifier
SomeCharacterMentions(chars, chapter_id) ==
  \E i \in 1..Len(chars) : chapter_id \in DOMAIN chars[i].chapter_mentions

Done(step) == \E k \in 1..Len(run.order) : run.order[k] = step

\* a file that is there and was written to its end
Complete(file) == file.exists /\ ~file.torn

\* C15: a run that found a stage's cache when it started makes no completion
\* call for that stage, and the stage's result is the cached list as it is (same
\* entries, identifiers, order); with the raw-script cache present and the
\* ambient cache absent, the first completion call of the run is Stage B's.
C15_CacheHitSkipsStage ==
  /\ run.startRaw.exists =>
       /\ "A" \notin run.calls
       /\ Done("A") => run.resA = run.startRaw.data
  /\ run.startAmb.exists =>
       /\ "B" \notin run.calls
       /\ Done("B") => run.resB = run.startAmb.data
  /\ (run.startRaw.exists /\ ~run.startAmb.exists /\ Done("B")) =>
       /\ "B" \in run.calls
       /\ SubSeq(run.order, 1, 2) = <<"A", "B">>

\* C15 witness: a run found the raw-script cache of an interrupted run and no
\* ambient cache, took the two cached entries and has made Stage B's call.
C15_Witness ==
  /\ sruns >= 2
  /\ Complete(run.startRaw) /\ ~run.startAmb.exists
  /\ Len(run.startRaw.data) = 2
  /\ run.resA = run.startRaw.data
  /\ run.calls = {"B"}
  /\ spc = "C"

\* C16 (as claimed): a run that follows an interrupted or failed run makes a
\* completion call only for a stage whose checkpoint it did not find, and makes
\* no Stage A call when it found the checkpoint of Stage B.
C16_ResumeAtFirstIncomplete ==
  sruns >= 2 =>
    /\ "A" \in run.calls => (~run.startRaw.exists /\ ~run.startAmb.exists)
    /\ "B" \in run.calls => ~run.startAmb.exists

\* C17: the steps of a run are taken in the order Stage A, Stage B, Stage C,
\* persist, delete raw cache, delete ambient cache, each after the one before it
\* is done; a cache file is deleted only by a run that has saved the final
\* scenario; when a run has ended well the final scenario is there and neither
\* cache is.
C17_State ==
  /\ run.order = SubSeq(Steps, 1, Len(run.order))
  /\ (spc # "idle") => (Len(run.order) < Len(Steps) /\ spc = Steps[Len(run.order) + 1])
  /\ run.ended = "ok" =>
       /\ run.order = Steps
       /\ Complete(scenarioFile)
       /\ ~rawCache.exists /\ ~ambCache.exists

C17_Action ==
  ((rawCache.exists /\ ~rawCache'.exists) \/ (ambCache.exists /\ ~ambCache'.exists)) =>
    /\ run.persisted /\ Complete(scenarioFile)
    /\ spc # "idle"

C17_StagesInOrder == [](C17_State) /\ [][C17_Action]_vars

\* C17 witness: a second run, resumed from the raw-script cache of an
\* interrupted first run, has ended well.
C17_Witness ==
  /\ sruns >= 2
  /\ run.ended = "ok"
  /\ Complete(run.startRaw)
  /\ Len(scenarioFile.data) = 2

\* C18 (as claimed): once the final scenario has been saved, no step of a later
\* run changes the saved file.
C18_ScenarioImmutable ==
  [][Complete(scenarioFile) => scenarioFile' = scenarioFile]_vars

\* C20: a run whose Stage B or Stage C answer is unusable is not ended by it:
\* it goes on to the next step, and the scenario it saves has ambient "none" in
\* every entry after a Stage B failure and the neutral emotion in every entry
\* not spoken by the narrator after a Stage C failure.
C20_DegradeToDefaults ==
  /\ (run.bFail \/ run.cFail) => run.ended # "error"
  /\ (run.bFail /\ run.ended = "no" /\ Len(run.order) = 2) => spc = "C"
  /\ (run.cFail /\ run.ended = "no" /\ Len(run.order) = 3) => spc = "persist"
  /\ (run.bFail /\ run.persisted) =>
       /\ Complete(scenarioFile)
       /\ Len(scenarioFile.data) = Len(run.resA)
       /\ \A i \in 1..Len(scenarioFile.data) : scenarioFile.data[i].ambient = "none"
  /\ (run.cFail /\ run.persisted) =>
       /\ Complete(scenarioFile)
       /\ \A i \in 1..Len(scenarioFile.data) :
            scenarioFile.data[i].speaker # Narrator =>
              /\ "emotion" \in DOMAIN scenarioFile.data[i]
              /\ scenarioFile.data[i].emotion = Neutral

\* C20 witness: both answers were unusable in one run, which saved a scenario of
\* a narrator entry without emotion and a character entry with the neutral one.
C20_Witness ==
  /\ run.bFail /\ run.cFail /\ run.persisted
  /\ Len(scenarioFile.data) = 2
  /\ \E i \in 1..2 : scenarioFile.data[i].speaker = Narrator
                      /\ "emotion" \notin DOMAIN scenarioFile.data[i]
  /\ \E i \in 1..2 : scenarioFile.data[i].speaker # Narrator

\* --------------------------------------- claims about _enrich_with_ambient
\* the transitions the collaborator gave (none when the answer is unusable)
GivenTransitions == IF fnIn.ambient_data.ok THEN fnIn.ambient_data.transitions ELSE <<>>

\* entry j of the argument is listed in the transitions
Listed(j) ==
  \E k \in 1..Len(GivenTransitions) :
    UuidToStr(GivenTransitions[k].entry_id) = fnIn.entries[j].id

\* the ambient the transitions give for the identifier of entry j
AmbientOf(j) ==
  LET ks == {k \in 1..Len(GivenTransitions) :
               UuidToStr(GivenTransitions[k].entry_id) = fnIn.entries[j].id}
      kmax == CHOOSE k \in ks : \A k2 \in ks : k2 <= k
  IN GivenTransitions[kmax].ambientSoundId

\* C19: _enrich_with_ambient gives entry i the ambient of the latest entry at a
\* position <= i that is listed in the transitions, "none" if there is none, and
\* changes nothing else; so the ambient differs from the previous entry's only
\* at a listed entry, no transitions give "none" everywhere, and one transition
\* at the first entry gives its ambient to every entry.
C19_AmbientRunLength ==
  fnOut.done =>
    LET in == fnIn.entries
        out == fnOut.entries
    IN /\ Len(out) = Len(in)
       /\ \A i \in 1..Len(in) :
            LET js == {j \in 1..i : Listed(j)}
            IN /\ out[i].ambient =
                    IF js = {} THEN "none"
                    ELSE AmbientOf(CHOOSE j \in js : \A j2 \in js : j2 <= j)
               /\ \A f \in DOMAIN in[i] : out[i][f] = in[i][f]
               /\ DOMAIN out[i] = DOMAIN in[i] \cup {"ambient"}
               /\ (i > 1 /\ out[i].ambient # out[i - 1].ambient) => Listed(i)
               /\ GivenTransitions = <<>> => out[i].ambient = "none"
               /\ (Len(GivenTransitions) = 1 /\ Listed(1)) =>
                    out[i].ambient = GivenTransitions[1].ambientSoundId

\* C19 witness: three entries, the first not listed, the second and third
\* listed with different ambients by two transitions given in the other order.
C19_Witness ==
  /\ fnOut.done
  /\ Len(fnIn.entries) = 3
  /\ Len(GivenTransitions) = 2
  /\ ~Listed(1) /\ Listed(2) /\ Listed(3)
  /\ UuidToStr(GivenTransitions[1].entry_id) = fnIn.entries[3].id
  /\ fnOut.entries[1].ambient = "none"
  /\ fnOut.entries[2].ambient = "rain"
  /\ fnOut.entries[3].ambient = "forest"

\* C21: when Stage A's collaborator gives no usable answer the run ends with
\* an error and has done nothing else: no raw cache is written, Stage B and
\* Stage C are not reached, no final scenario is saved, and the three files
\* are as the run found them.
C21_StageAFailureAborts ==
  run.aFail =>
    /\ spc = "idle" /\ run.ended = "error"
    /\ run.calls = {"A"} /\ run.order = <<>> /\ ~run.persisted
    /\ rawCache = run.startRaw
    /\ ambCache = run.startAmb
    /\ scenarioFile = run.startScen

\* C21 witness: Stage A failed in a run that found an ambient cache and a final
\* scenario left by an earlier run.
C21_Witness ==
  /\ run.aFail /\ run.ended = "error"
  /\ Complete(run.startAmb) /\ Complete(run.startScen)
  /\ ~run.startRaw.exists

\* C22 (as claimed): every entry of kind dialogue in a saved final scenario
\* carries an emotion label, whoever its speaker is.
C22_DialogueHasEmotion ==
  Complete(scenarioFile) =>
    \A i \in 1..Len(scenarioFile.data) :
      scenarioFile.data[i].type = "dialogue" => "emotion" \in DOMAIN scenarioFile.data[i]

\* C23 (as claimed): a run whose chapter text is missing, or whose book has no
\* character archive file, ends with an error and saves no final scenario.
C23_MissingInputAborts ==
  (~inputs.text \/ ~inputs.archive) =>
    /\ ~run.persisted
    /\ run.ended # "ok"
    /\ spc \in {"idle", "A"}

\* C24 (as claimed): every entry of the raw cache, of the ambient cache and of
\* the saved final scenario carries an identifier, and no two entries of one
\* file share one.
C24_IdentifierKept ==
  \A file \in {rawCache, ambCache, scenarioFile} :
    Complete(file) =>
      /\ \A i \in 1..Len(file.data) : "id" \in DOMAIN file.data[i]
      /\ \A i, j \in 1..Len(file.data) : file.data[i].id = file.data[j].id => i = j

\* C25 (as claimed): the final scenario a run saves has as many entries as
\* the run's Stage A gave, in the same order, each with the kind, the speaker
\* and the text Stage A gave it.
C25_StagesKeepEntries ==
  (run.persisted /\ Complete(scenarioFile)) =>
    /\ Len(scenarioFile.data) = Len(run.resA)
    /\ \A i \in 1..Len(scenarioFile.data) :
         \A f \in {"type", "speaker", "text"} : scenarioFile.data[i][f] = run.resA[i][f]

\* C26 (as claimed): for the same chapter and the same collaborator answers, a
\* run with a progress callback, whatever the callback does, makes the same
\* collaborator calls in the same order and leaves the same files as a run
\* without one.
C26_CallbackHasNoEffect ==
  fnOut.done => fnOut.with = fnOut.without

\* C27: a call of call_for_pydantic ends; it makes at most max_retries = 3
\* attempts; it ends by returning a schema-valid model or None, never by an
\* exception, whatever the attempts ended in (quota error, other error,
\* blocked response, text without JSON, JSON of another schema); it returns a
\* model only for a text that validates.
C27_State ==
  /\ tries <= max_retries
  /\ ~result.raised
  /\ lpc = "done" =>
       /\ result.returned
       /\ result.value \in {"None", "model"}
       /\ result.value = "model" <=> response_text = "{valid}"

RECURSIVE SpanSum(_, _)
SpanSum(sync_map, n) ==
  IF n = 0 THEN 0 ELSE SpanSum(sync_map, n - 1) + (sync_map[n].end_ms - sync_map[n].start_ms)

\* C28 (as claimed): merge_chapter_audio gives a sync map whose spans add up
\* to the duration of the assembled audio, and whose last item ends at it.
C28_SpansAddUpToDuration ==
  fnOut.done =>
    LET m == fnOut.merged
    IN /\ ~m.raised
       /\ SpanSum(m.sync_map, Len(m.sync_map)) = m.duration
       /\ Len(fnIn.entries) > 0 =>
            /\ Len(m.sync_map) > 0
            /\ m.sync_map[Len(m.sync_map)].end_ms = m.duration

\* C29 (as claimed): the sync map has one item per scenario entry, in the
\* entries' order; the first starts at 0, each later one where the one before
\* it ends; an entry with no readable file has start = end.
C29_OneItemPerEntry ==
  fnOut.done =>
    LET m == fnOut.merged
    IN /\ ~m.raised
       /\ Len(m.sync_map) = Len(fnIn.entries)
       /\ \A i \in 1..Len(m.sync_map) :
            /\ m.sync_map[i].text = fnIn.entries[i].text
            /\ m.sync_map[i].start_ms = IF i = 1 THEN 0 ELSE m.sync_map[i - 1].end_ms
            /\ m.sync_map[i].end_ms >= m.sync_map[i].start_ms

\* the names the claim lists for an entry: the subtitles map's, the entry's own,
\* the default from the identifier
CandidateNames(entry, subtitles_map) ==
  ( (IF entry.id \in DOMAIN subtitles_map THEN {subtitles_map[entry.id]} ELSE {})
    \cup (IF "audio_file" \in DOMAIN entry THEN {entry.audio_file} ELSE {})
    \cup {[stem |-> entry.id, ext |-> ".wav"]} ) \ {NoName}

\* C30 (as claimed): an entry's slot has no audio only when none of the
\* candidate names (the subtitles map's, the entry's own, the default from
\* the identifier, each with the extension alternatives) is a file of the
\* audio directory.
C30_UnresolvedOnlyIfNoCandidate ==
  fnOut.done =>
    LET m == fnOut.merged
    IN /\ ~m.raised
       /\ \A i \in 1..Len(m.sync_map) :
            m.sync_map[i].end_ms = m.sync_map[i].start_ms =>
              \A c \in CandidateNames(fnIn.entries[i], fnIn.subtitles_map) :
                \A f \in DOMAIN fnIn.files :
                  (f = c \/ (f.stem = c.stem /\ f.ext \in Range(Extensions))) =>
                    ~fnIn.files[f].ok

\* C32: the k-th failed attempt (k = 1, 2, 3) is followed by a sleep of 2^k
\* seconds, or of h + 1 seconds when it was a quota error with a hint of h
\* seconds; a response without candidates ends the call with None and no
\* further attempt or sleep.
C32_BackoffAndHints ==
  /\ Len(outcomes) = tries
  /\ \A k \in 1..Len(outcomes) :
       /\ outcomes[k].kind \in {"quota", "error"} =>
            /\ k <= Len(delays)
            /\ delays[k] = IF outcomes[k].kind = "quota" /\ outcomes[k].hinted
                             THEN outcomes[k].hint + 1 ELSE 2 ^ k
       /\ outcomes[k].kind = "blocked" =>
            /\ k = Len(outcomes) /\ Len(delays) = k - 1
            /\ lpc = "done" /\ result = Return("None")

\* C32 witness: a quota error with a hint of 30 s, then a quota error without
\* a hint, then a response without candidates.
C32_Witness ==
  /\ Len(outcomes) = 3
  /\ outcomes[1].kind = "quota" /\ outcomes[1].hinted /\ outcomes[1].hint = 30
  /\ outcomes[2].kind = "quota" /\ ~outcomes[2].hinted
  /\ outcomes[3].kind = "blocked"
  /\ delays = <<31, 4>>

\* C34 (as claimed): in every run the entries Stage B hands to Stage C are
\* the entries of the Stage A output of that run, with the same identifiers,
\* order and text.
C34_StageCGetsStageAEntries ==
  Done("B") =>
    /\ Len(run.resB) = Len(run.resA)
    /\ \A i \in 1..Len(run.resB) :
         /\ run.resB[i].id = run.resA[i].id
         /\ run.resB[i].text = run.resA[i].text

\* C35 (as claimed): no entry spoken by the narrator carries an emotion label
\* in a saved final scenario, whatever the collaborator's answer maps.
C35_NarratorHasNoEmotion ==
  Complete(scenarioFile) =>
    \A i \in 1..Len(scenarioFile.data) :
      scenarioFile.data[i].speaker = Narrator => "emotion" \notin DOMAIN scenarioFile.data[i]

\* C36 (as claimed): the registry never holds two characters with the same
\* name, after any sequence of _apply_patch calls.
C36_NamesUnique ==
  \A i, j \in 1..Len(archive) : archive[i].name = archive[j].name => i = j

\* C38: a task's status only moves queued -> processing -> complete or
\* queued -> processing -> failed; it is complete exactly when the pipeline
\* function returned and failed exactly when it raised; complete and failed are
\* never left; a progress report for an unknown task_id changes no task.
C38_State ==
  \A t \in DOMAIN background_tasks :
    /\ background_tasks[t].status \in {"queued", "processing", "complete", "failed"}
    /\ background_tasks[t].status = "complete" <=> outcome[t] = "returned"
    /\ background_tasks[t].status = "failed" <=> outcome[t] = "raised"

C38_Step ==
  /\ \A t \in DOMAIN background_tasks :
       /\ t \in DOMAIN background_tasks'
       /\ \/ background_tasks'[t].status = background_tasks[t].status
          \/ <<background_tasks[t].status, background_tasks'[t].status>> \in
               {<<"queued", "processing">>, <<"processing", "complete">>,
                <<"processing", "failed">>}
  /\ \A t \in DOMAIN background_tasks' \ DOMAIN background_tasks :
       background_tasks'[t].status = "queued"
  /\ (reported' # reported /\ \E t \in reported' : t \notin DOMAIN background_tasks)
       => background_tasks' = background_tasks

C38_TaskStatusLifecycle == []C38_State /\ [][C38_Step]_vars

C38_Witness ==
  /\ \E t \in DOMAIN background_tasks : background_tasks[t].status = "complete"
  /\ \E t \in DOMAIN background_tasks : background_tasks[t].status = "failed"
  /\ reported = {0}

\* C39: start_task adds a task record and schedules the pipeline function only
\* when the status is READY and the pipelines are initialized; otherwise the
\* request ends in an error, no record is added and nothing is scheduled.
C39_Step ==
  /\ (DOMAIN background_tasks' # DOMAIN background_tasks \/ ~(scheduled' \subseteq scheduled))
       => SERVER_STATUS = "READY" /\ app_pipelines # "None" /\ reply' = "accepted"
  /\ (reply' # reply /\ ~(SERVER_STATUS = "READY" /\ app_pipelines # "None"))
       => /\ reply' \in {"503", "500", "AttributeError"}
          /\ background_tasks' = background_tasks
          /\ scheduled' = scheduled

C39_StartOnlyWhenReady == [][C39_Step]_vars

C39_Witness ==
  /\ reply \in {"503", "AttributeError"}
  /\ \E t \in scheduled : background_tasks[t].status = "queued"

\* C33: whatever the interleaving of the threads calling get_tts_service,
\* get_vc_service, get_llm_service and LLMService.model, at most one instance is
\* constructed per service key and every caller of a key is returned that one.
C33_OneInstancePerKey ==
  \A k \in ServiceKeys :
    /\ built[k] <= 1
    /\ handed[k] \subseteq {1}
    /\ \A t \in Threads : (tpc[t] = "idle" /\ tkey[t] = k /\ got[t] # NoInstance) => got[t] = _services[k]

C33_Witness ==
  /\ \A k \in ServiceKeys : built[k] = 1 /\ handed[k] = {1}
  /\ \A t \in Threads : got[t] = 1 /\ tkey[t] = "model"

\* C31: a playback request is answered from the cache, without a merge and
\* with the sync map and duration of the build that wrote the cache, exactly
\* when both cache files exist, the sync map is readable and no rebuild was
\* asked for; every other request rebuilds and rewrites the cache.
C31_CacheOrRebuild ==
  (ppc = "idle" /\ response.kind \notin {"none", "killed"}) =>
    /\ response.kind = "cached" <=> response.hit
    /\ response.kind = "cached" =>
         /\ ~response.merge_called
         /\ response.sync_map = full_audio_path.sync_map
         /\ response.duration_ms = full_audio_path.duration
    /\ ~response.hit => response.kind = "built" /\ response.rewritten

\* C37: whenever both cache files exist, the cached sync map is the one
\* computed by the merge that wrote the cached audio file.
C37_MapBelongsToAudio ==
  (ppc = "idle" /\ full_audio_path.exists /\ sync_map_path.exists) =>
    /\ sync_map_path.readable
    /\ sync_map_path.build = full_audio_path.build

====
